---- MODULE Spec2Model ----
(***************************************************************************)
(* A state-machine model of the study_actors actor hierarchy of the hub     *)
(* crate: the Auth actor (sessions and expiry sweep), the Network Manager   *)
(* (per-domain admission control), the Data Manager with its Cache and      *)
(* Storage children (read-through cache), the supervisor's recovery, the    *)
(* requests that cross the tree and the life of the actors that own a task. *)
(* Every actor runs one handler at a time over a FIFO mailbox; each         *)
(* subsystem has a specification of its own (SpecAuth, SpecNet, SpecData,   *)
(* SpecDataLoss, SpecFetch, SpecCleanup, SpecSup, SpecOrphan, SpecAsk,      *)
(* SpecSupervisor, SpecUser, SpecLife) so that it is explored exhaustively. *)
(***************************************************************************)
EXTENDS Integers, Sequences, FiniteSets, TLC

VARIABLES
    now,              \* chrono::Utc::now().timestamp() as u64, in seconds
    ticks,            \* how many times the clock has advanced (bounds the run)
    active_sessions,  \* AuthActor.active_sessions: token -> AuthSession
    authLast,         \* the Auth handler that ran last: input, result, signals
    netMailbox,       \* the Network Manager's mailbox, oldest request first
    connection_pool,  \* NetworkManagerActor.connection_pool: domain -> in-flight count
    netRunning,       \* the request whose handler awaits the transport, or NoRequest
    netMarked,        \* where in the mailbox the request sent over the ceiling waits (0: none)
    netLast,          \* the NetworkRequest handler that returned last
    netIds,           \* for each waiting request, its arrival rank among the waiting (1: oldest)
    netTaken,         \* the arrival rank of the request the last handler took (0: none yet)
    overflow_checks,  \* whether the build panics on integer overflow (debug) or wraps
    cache,            \* CacheActor.cache: key -> CacheEntry
    cacheAlive,       \* whether the Cache actor's task still runs
    storageAlive,     \* whether the Storage actor's task still runs
    dataStored,       \* the StoreData that returned Ok just now (no handler, no tick since)
    dataLast,         \* the Data Manager handler that ran last
    spawned,          \* the actors in the order tokio::spawn started them; address = index
    fields,           \* address -> the addresses that actor holds in its fields
    supervisor,       \* AppSupervisor's user_manager, data_manager, network_manager
    mailboxes,        \* address -> the messages waiting in that actor's mailbox
    recovered,        \* the kinds handle_actor_failure was invoked for, in order
    gone,             \* the addresses of the actors whose task has ended
    asks,             \* the handlers a client's request has started and not finished, innermost last
    askTrace,         \* the sends those handlers have made so far, in order
    askLast,          \* the client's request that completed last, with its result and sends
    holders,          \* actor -> how many clones of its address are held outside the actor
    tasks,            \* actor -> what the task in its _owned_tasks is doing
    running,          \* actor -> whether the loop of context.run(actor) is still going
    queued,           \* actor -> how many notifications of its task wait in its mailbox
    count             \* CountingActor's count

authVars == <<active_sessions, authLast>>
clockVars == <<now, ticks>>
netVars == <<netMailbox, connection_pool, netRunning, netMarked, netLast, netIds, netTaken>>
dataVars == <<overflow_checks, cache, cacheAlive, storageAlive, dataStored, dataLast>>
supVars == <<spawned, fields, supervisor, mailboxes, recovered>>
askVars == <<gone, asks, askTrace, askLast>>
lifeVars == <<holders, tasks, running, queued, count>>

----------------------------------------------------------------------------
(* Bounds of the model. *)

\* The clock reading when the actors are constructed.
StartTime == 1
\* How many times the clock advances in a run.
MaxTicks == 3
\* How many requests wait in the Network Manager's mailbox at once.
MaxMailbox == 2
\* The same, when the clients send a burst of requests to one domain.
BurstMailbox == 10
\* How many times the supervisor's recovery is invoked in a run.
MaxRecoveries == 3

----------------------------------------------------------------------------
(* Results of handlers: Result<T, Box<dyn Error>>. *)

Ok(v) == [ok |-> TRUE, val |-> v]
Err(e) == [ok |-> FALSE, err |-> e]

\* The fold of a set into a sequence, in some order (a HashMap's iteration order).
RECURSIVE SetToSeq(_)
SetToSeq(S) ==
    IF S = {} THEN <<>>
    ELSE LET x == CHOOSE y \in S : TRUE IN <<x>> \o SetToSeq(S \ {x})

\* Option<T>: None and Some(v).
None == <<>>
Some(v) == <<v>>

\* No StoreData has just returned.
NoStore == [key |-> "none", data |-> <<>>]

----------------------------------------------------------------------------
(* The clock. *)

\* d seconds pass.
Tick(d) ==
    /\ ticks < MaxTicks
    /\ now' = now + d
    /\ ticks' = ticks + 1
    /\ dataStored' = NoStore
    /\ UNCHANGED <<authVars, netVars, supVars, askVars, lifeVars, overflow_checks, cache, cacheAlive,
                   storageAlive, dataLast>>

----------------------------------------------------------------------------
(* The Auth actor: actors/auth.rs. *)

\* Lifetime of a session in seconds: get_current_timestamp() + 3600.
SessionTTL == 3600

Usernames == {"demo", "guest"}
Passwords == {"password", "wrong"}

\* format!("token_{}_{}", user_id, chrono::Utc::now().timestamp())
generate_token(user_id, t) == <<"token", user_id, t>>

\* A token no login has issued.
InvalidToken == <<"token", "nobody", 0>>

\* AuthStateChanged { is_authenticated, user_id: Some(user_id) }
AuthStateChanged(auth, user_id) ==
    [signal |-> "AuthStateChanged", is_authenticated |-> auth, user_id |-> user_id]

\* A credential check that looks at the username alone.
CredentialsValid_UsernameOnly(username, password) ==
    username = "demo"

\* The credential check of Handler<Login>.
CredentialsValid(username, password) ==
    username = "demo" /\ password = "password"

\* The AuthResult a successful login at time t returns.
LoginAuthResult(t) ==
    [user_id |-> "user_1",
     token |-> generate_token("user_1", t),
     expires_at |-> t + SessionTTL]

\* A session map keyed by user id instead of by token.
InsertSession_KeyedByUser(sessions, r) ==
    [k \in DOMAIN sessions \cup {r.user_id} |->
        IF k = r.user_id
        THEN [user_id |-> r.user_id, token |-> r.token, expires_at |-> r.expires_at]
        ELSE sessions[k]]

\* active_sessions.insert(token, AuthSession { user_id, token, expires_at })
InsertSession(sessions, r) ==
    [k \in DOMAIN sessions \cup {r.token} |->
        IF k = r.token
        THEN [user_id |-> r.user_id, token |-> r.token, expires_at |-> r.expires_at]
        ELSE sessions[k]]

\* A removal that clears the whole map.
RemoveSessions_All(sessions, tokens) ==
    IF tokens \cap DOMAIN sessions = {} THEN sessions ELSE <<>>

\* active_sessions.remove(token)
RemoveSessions(sessions, tokens) ==
    [k \in DOMAIN sessions \ tokens |-> sessions[k]]

\* Handler<Login>::handle: its result, the session map it leaves and the
\* signals it sends to Dart.
LoginOutcome(sessions, username, password, t) ==
    IF CredentialsValid(username, password)
    THEN LET r == LoginAuthResult(t) IN
         [result |-> Ok(r),
          sessions |-> InsertSession(sessions, r),
          signals |-> <<AuthStateChanged(TRUE, r.user_id)>>]
    ELSE [result |-> Err("Invalid username or password"),
          sessions |-> sessions,
          signals |-> <<>>]

\* Handler<Login>::handle: what it does to the Auth actor.
LoginEffect(username, password) ==
    LET out == LoginOutcome(active_sessions, username, password, now)
    IN  /\ active_sessions' = out.sessions
        /\ authLast' = [op |-> "Login",
                        arg |-> <<username, password>>,
                        time |-> now,
                        result |-> out.result,
                        signals |-> out.signals,
                        before |-> active_sessions]

\* A Login sent to the Auth actor and handled.
Login(username, password) ==
    /\ LoginEffect(username, password)
    /\ UNCHANGED <<clockVars, netVars, dataVars, supVars, askVars, lifeVars>>

\* A notification handler that answers a failed login with no signal.
LoginResponses_SilentOnFailure(login_result) ==
    IF login_result.ok
    THEN <<[signal |-> "LoginResponse", success |-> TRUE,
            user_id |-> Some(login_result.val.user_id),
            token |-> Some(login_result.val.token), error |-> None]>>
    ELSE <<>>

\* The LoginResponse signals Notifiable<LoginRequest>::notify sends to Dart
\* for the result of the login.
LoginResponses(login_result) ==
    IF login_result.ok
    THEN <<[signal |-> "LoginResponse", success |-> TRUE,
            user_id |-> Some(login_result.val.user_id),
            token |-> Some(login_result.val.token), error |-> None]>>
    ELSE <<[signal |-> "LoginResponse", success |-> FALSE,
            user_id |-> None, token |-> None, error |-> Some(login_result.err)]>>

\* A notification handler that sends its response before it runs the handler.
NotifySignals_ResponseFirst(handler_signals, responses) ==
    responses \o handler_signals

\* The signals of a Dart-facing notification handler in the order they are
\* sent: those of the handler it awaits, then its own response.
NotifySignals(handler_signals, responses) ==
    handler_signals \o responses

\* Notifiable<LoginRequest>::notify: the Login handler is run on the actor
\* itself and its result sent to Dart as a LoginResponse.
LoginRequest(username, password) ==
    LET out == LoginOutcome(active_sessions, username, password, now)
    IN  /\ active_sessions' = out.sessions
        /\ authLast' = [op |-> "LoginRequest",
                        arg |-> <<username, password>>,
                        time |-> now,
                        result |-> Ok("unit"),
                        signals |-> NotifySignals(out.signals, LoginResponses(out.result)),
                        before |-> active_sessions]
        /\ UNCHANGED <<clockVars, netVars, dataVars, supVars, askVars, lifeVars>>

\* A logout that ends every session of the token's user.
LogoutOutcome_AllOfUser(sessions, token) ==
    IF token \in DOMAIN sessions
    THEN [result |-> Ok("unit"),
          sessions |-> RemoveSessions(sessions,
                           {k \in DOMAIN sessions : sessions[k].user_id = sessions[token].user_id}),
          signals |-> <<AuthStateChanged(FALSE, sessions[token].user_id)>>]
    ELSE [result |-> Err("Invalid or expired token"),
          sessions |-> sessions,
          signals |-> <<>>]

\* Handler<Logout>::handle: its result, the session map it leaves and the
\* signals it sends to Dart.
LogoutOutcome(sessions, token) ==
    IF token \in DOMAIN sessions
    THEN [result |-> Ok("unit"),
          sessions |-> RemoveSessions(sessions, {token}),
          signals |-> <<AuthStateChanged(FALSE, sessions[token].user_id)>>]
    ELSE [result |-> Err("Invalid or expired token"),
          sessions |-> sessions,
          signals |-> <<>>]

\* Handler<Logout>::handle
Logout(token) ==
    LET out == LogoutOutcome(active_sessions, token)
    IN  /\ active_sessions' = out.sessions
        /\ authLast' = [op |-> "Logout",
                        arg |-> token,
                        time |-> now,
                        result |-> out.result,
                        signals |-> out.signals,
                        before |-> active_sessions]
        /\ UNCHANGED <<clockVars, netVars, dataVars, supVars, askVars, lifeVars>>

\* LogoutResponse { success }
LogoutResponse(success) == [signal |-> "LogoutResponse", success |-> success]

\* active_sessions.iter().find(|(_, s)| s.user_id == msg.user_id): the tokens
\* the lookup may return, any one of the user's sessions since the map's
\* iteration order is not fixed.
SessionsFound(sessions, user_id) ==
    {k \in DOMAIN sessions : sessions[k].user_id = user_id}

\* The user ids Dart may ask to log out: the one Login issues and another.
LogoutRequestUsers == {"user_1", "user_2"}

\* Notifiable<LogoutRequest>::notify: the token of a session of the user is
\* looked up; if there is one the Logout handler is run on the actor itself and
\* its result sent to Dart as a LogoutResponse, otherwise LogoutResponse
\* { success: false } is sent.
LogoutRequest(user_id) ==
    LET found == SessionsFound(active_sessions, user_id)
    IN  /\ IF found = {}
           THEN /\ active_sessions' = active_sessions
                /\ authLast' = [op |-> "LogoutRequest",
                                arg |-> user_id,
                                time |-> now,
                                result |-> Ok("unit"),
                                signals |-> <<LogoutResponse(FALSE)>>,
                                before |-> active_sessions]
           ELSE \E token \in found :
                    LET out == LogoutOutcome(active_sessions, token)
                    IN  /\ active_sessions' = out.sessions
                        /\ authLast' = [op |-> "LogoutRequest",
                                        arg |-> user_id,
                                        time |-> now,
                                        result |-> Ok("unit"),
                                        signals |-> NotifySignals(out.signals,
                                                        <<LogoutResponse(out.result.ok)>>),
                                        before |-> active_sessions]
        /\ UNCHANGED <<clockVars, netVars, dataVars, supVars, askVars, lifeVars>>

\* A verification that still accepts the token in the second it expires.
VerifyResult_Inclusive(sessions, token, t) ==
    IF token \in DOMAIN sessions
    THEN IF sessions[token].expires_at >= t
         THEN Ok(sessions[token].user_id)
         ELSE Err("Token expired")
    ELSE Err("Invalid token")

\* The result of Handler<VerifyToken>::handle on a session map at time t.
VerifyResult(sessions, token, t) ==
    IF token \in DOMAIN sessions
    THEN IF sessions[token].expires_at > t
         THEN Ok(sessions[token].user_id)
         ELSE Err("Token expired")
    ELSE Err("Invalid token")

\* A verification that evicts the session it finds expired.
VerifySessions_EvictsExpired(sessions, token, t) ==
    IF token \in DOMAIN sessions /\ sessions[token].expires_at <= t
    THEN RemoveSessions(sessions, {token})
    ELSE sessions

\* The session map Handler<VerifyToken>::handle leaves: it only reads the map
\* (active_sessions.get), whatever it answers.
VerifySessions(sessions, token, t) == sessions

\* Handler<VerifyToken>::handle
VerifyToken(token) ==
    /\ active_sessions' = VerifySessions(active_sessions, token, now)
    /\ authLast' = [op |-> "VerifyToken",
                    arg |-> token,
                    time |-> now,
                    result |-> VerifyResult(active_sessions, token, now),
                    signals |-> <<>>,
                    before |-> active_sessions]
    /\ UNCHANGED <<clockVars, netVars, dataVars, supVars, askVars, lifeVars>>

\* A sweep whose comparison is turned around: it collects the live sessions.
ExpiredTokens_Inverted(sessions, t) ==
    {k \in DOMAIN sessions : sessions[k].expires_at > t}

\* The tokens the sweep collects: filter(|(_, s)| s.expires_at < current_time).
ExpiredTokens(sessions, t) ==
    {k \in DOMAIN sessions : sessions[k].expires_at < t}

\* A sweep that reports once however many sessions it evicted.
SweepSignals_OncePerSweep(sessions, order) ==
    IF order = <<>> THEN <<>>
    ELSE <<AuthStateChanged(FALSE, sessions[order[1]].user_id)>>

\* The signals of the sweep's loop: one per removed session, in removal order.
SweepSignals(sessions, order) ==
    [i \in 1..Len(order) |-> AuthStateChanged(FALSE, sessions[order[i]].user_id)]

\* Notifiable<CheckExpiredTokens>::notify, enqueued by check_token_expiry.
CheckExpiredTokensEffect ==
    LET expired == ExpiredTokens(active_sessions, now)
        order == SetToSeq(expired)
    IN  /\ active_sessions' = RemoveSessions(active_sessions, expired)
        /\ authLast' = [op |-> "CheckExpiredTokens",
                        arg |-> "unit",
                        time |-> now,
                        result |-> Ok("unit"),
                        signals |-> SweepSignals(active_sessions, order),
                        before |-> active_sessions]

\* The sweep on its own, whenever the notification is delivered.
CheckExpiredTokens ==
    /\ CheckExpiredTokensEffect
    /\ UNCHANGED <<clockVars, netVars, dataVars, supVars, askVars, lifeVars>>

\* The tokens a client may present: the live ones, one issued at construction
\* time (possibly logged out or swept since) and one never issued.
TokenInputs ==
    DOMAIN active_sessions \cup {generate_token("user_1", StartTime), InvalidToken}

\* The clock steps of the Auth runs: a second, and a whole session lifetime.
AuthTickSteps == {1, SessionTTL}

\* AuthActor::new: no session; no handler has run.
InitAuth ==
    /\ active_sessions = <<>>
    /\ authLast = [op |-> "none", arg |-> "unit", time |-> StartTime,
                   result |-> Ok("unit"), signals |-> <<>>, before |-> <<>>]

----------------------------------------------------------------------------
(* The Network Manager: actors/network.rs. *)

\* NetworkManagerActor::new: max_connections: 10
max_connections == 10

\* A URL is its text cut at every "://", each piece cut at every '/'.
\* "https://a.example/data" and "b.example/files", the second without a scheme.
UrlA == << <<"https:">>, <<"a.example", "data">> >>
UrlB == << <<"b.example", "files">> >>
Urls == {UrlA, UrlB}

\* url.split("://").nth(1).unwrap_or(url).split('/').next().unwrap_or(url)
extract_domain(url) ==
    LET rest == IF Len(url) >= 2 THEN url[2] ELSE url[1]
    IN  Head(rest)

NoRequest == [url |-> <<>>, domain |-> "none", over |-> FALSE, before |-> 0]

\* No handler has returned since the running one started.
NoReturn == [outcome |-> "none", domain |-> "none", over |-> FALSE, before |-> 0,
             result |-> Ok("unit")]

\* The counter of a domain; a domain without an entry counts 0.
PoolCount(pool, domain) ==
    IF domain \in DOMAIN pool THEN pool[domain] ELSE 0

\* connection_pool.entry(domain).or_insert(0), then *connection_count += 1
PoolIncrement(pool, domain) ==
    [d \in DOMAIN pool \cup {domain} |->
        IF d = domain THEN PoolCount(pool, domain) + 1 ELSE pool[d]]

\* A rejection that keeps the increment.
PoolUndo_Kept(pool, domain) == pool

\* *connection_count -= 1 on the entry just incremented (the rejecting path)
PoolUndo(pool, domain) ==
    [d \in DOMAIN pool |-> IF d = domain THEN pool[d] - 1 ELSE pool[d]]

\* if let Some(count) = get_mut(&domain) { *count = count.saturating_sub(1) }
PoolDecrement(pool, domain) ==
    [d \in DOMAIN pool |->
        IF d = domain THEN (IF pool[d] > 0 THEN pool[d] - 1 ELSE 0) ELSE pool[d]]

\* The admission check: *connection_count > self.max_connections as u32
OverCeiling(connection_count) == connection_count > max_connections

\* The requests for a domain that were sent and not yet answered.
Outstanding(domain) ==
    Cardinality({i \in 1..Len(netMailbox) : extract_domain(netMailbox[i]) = domain})
    + (IF netRunning.domain = domain THEN 1 ELSE 0)

\* Address::send(NetworkRequest): the request joins the mailbox. netMarked
\* remembers the first waiting request that was sent while max_connections
\* requests for its domain were outstanding already.
NetSend(url, capacity) ==
    /\ Len(netMailbox) < capacity
    /\ netMailbox' = Append(netMailbox, url)
    /\ netMarked' = IF netMarked = 0 /\ Outstanding(extract_domain(url)) >= max_connections
                    THEN Len(netMailbox) + 1
                    ELSE netMarked
    /\ netIds' = Append(netIds, Len(netIds) + 1)
    /\ UNCHANGED <<connection_pool, netRunning, netLast, netTaken>>
    /\ UNCHANGED <<clockVars, authVars, dataVars, supVars, askVars, lifeVars>>

\* NetworkResponse { status, headers, body, error }
NetworkResponse(status, body, error) ==
    [status |-> status, body |-> body, error |-> error]

\* What the transport does with a dispatched request.
TransportOutcomes == {"response_2xx", "response_5xx", "body_read_failed", "send_failed"}

\* The NetworkResponse the handler builds from the transport's outcome.
ResponseOf(outcome) ==
    CASE outcome = "response_2xx" -> NetworkResponse(200, "bytes", "None")
      [] outcome = "response_5xx" -> NetworkResponse(503, "bytes", "None")
      [] outcome = "body_read_failed" ->
             NetworkResponse(200, "empty", "Failed to read response body")
      [] outcome = "send_failed" -> NetworkResponse(500, "empty", "Request failed")

\* StatusCode::is_success: 200..=299
StatusIsSuccess(status) == status \in 200..299

\* NetworkResponse::is_success
is_success(resp) == StatusIsSuccess(resp.status) /\ resp.error = "None"

\* A handler that returns the transport's failures as Err.
HandlerResult_ErrOnFailure(outcome) ==
    IF outcome \in {"send_failed", "body_read_failed"}
    THEN Err(ResponseOf(outcome).error)
    ELSE Ok(ResponseOf(outcome))

\* What the handler returns once the request was dispatched: `Ok(result)`.
HandlerResult(outcome) == Ok(ResponseOf(outcome))

\* A sequence without its i-th element.
RemoveAt(seq, i) ==
    [j \in 1..(Len(seq) - 1) |-> IF j < i THEN seq[j] ELSE seq[j + 1]]

\* The arrival ranks of the requests still waiting once the one of rank r left.
RanksWithout(ids, i) ==
    LET rest == RemoveAt(ids, i)
    IN  [j \in 1..Len(rest) |-> IF rest[j] > ids[i] THEN rest[j] - 1 ELSE rest[j]]

\* A run loop that takes the request that arrived last.
NextMessage_Newest(mailbox) == Len(mailbox)

\* context.run(actor): the place in the mailbox of the message the loop takes
\* next, the one that has waited longest.
NextMessage(mailbox) == 1

\* Handler<NetworkRequest>::handle up to its first await: the admission check
\* and the client build, which succeeds or not as `builds` allows. Only one
\* handler runs at a time (handle takes &mut self).
NetHandleStart(builds) ==
    /\ netRunning = NoRequest
    /\ netMailbox # <<>>
    /\ LET at == NextMessage(netMailbox)
           msg == [url |-> netMailbox[at], over |-> netMarked = at]
           domain == extract_domain(msg.url)
           before == PoolCount(connection_pool, domain)
           counted == PoolIncrement(connection_pool, domain)
       IN  /\ netMailbox' = RemoveAt(netMailbox, at)
           /\ netMarked' = IF netMarked > at THEN netMarked - 1
                            ELSE IF netMarked = at THEN 0 ELSE netMarked
           /\ netTaken' = netIds[at]
           /\ netIds' = RanksWithout(netIds, at)
           /\ UNCHANGED <<clockVars, authVars, dataVars, supVars, askVars, lifeVars>>
           /\ IF OverCeiling(counted[domain])
              THEN /\ connection_pool' = PoolUndo(counted, domain)
                   /\ netRunning' = NoRequest
                   /\ netLast' = [outcome |-> "rejected", domain |-> domain,
                                  over |-> msg.over, before |-> before,
                                  result |-> Err("Too many connections to domain")]
              ELSE \E built \in builds :
                   IF built
                   THEN /\ connection_pool' = counted
                        /\ netRunning' = [url |-> msg.url, domain |-> domain,
                                          over |-> msg.over, before |-> before]
                        /\ netLast' = NoReturn
                   ELSE /\ connection_pool' = counted
                        /\ netRunning' = NoRequest
                        /\ netLast' = [outcome |-> "build_failed", domain |-> domain,
                                       over |-> msg.over, before |-> before,
                                       result |-> Err("Network error: Failed to build HTTP client")]

\* The rest of the handler: request_builder.send().await, resp.bytes().await,
\* the decrement and the return.
NetHandleFinish ==
    /\ netRunning # NoRequest
    /\ \E outcome \in TransportOutcomes :
          /\ connection_pool' = PoolDecrement(connection_pool, netRunning.domain)
          /\ netLast' = [outcome |-> outcome, domain |-> netRunning.domain,
                         over |-> netRunning.over, before |-> netRunning.before,
                         result |-> HandlerResult(outcome)]
    /\ netRunning' = NoRequest
    /\ UNCHANGED <<netMailbox, netMarked, netIds, netTaken>>
    /\ UNCHANGED <<clockVars, authVars, dataVars, supVars, askVars, lifeVars>>

\* NetworkManagerActor::new: an empty pool, nothing sent yet.
InitNet ==
    /\ netMailbox = <<>>
    /\ connection_pool = <<>>
    /\ netRunning = NoRequest
    /\ netMarked = 0
    /\ netLast = NoReturn
    /\ netIds = <<>>
    /\ netTaken = 0

\* Any client, any URL; Client::builder().build() may fail.
NextNet ==
    \/ \E url \in Urls : NetSend(url, MaxMailbox)
    \/ NetHandleStart(BOOLEAN)
    \/ NetHandleFinish

\* A burst of requests to one domain, in an environment where the client builds.
NextNetBurst ==
    \/ NetSend(UrlA, BurstMailbox)
    \/ NetHandleStart({TRUE})
    \/ NetHandleFinish

----------------------------------------------------------------------------
(* The Data Manager and its Cache and Storage children: actors/data.rs. *)

\* u64::MAX, written as its residue -1 modulo 2^64: the one value of at least
\* 2^63 the model uses. Every other u64 of the model is far below 2^63.
U64Max == -1

\* Whether a + b leaves u64 (a is a clock reading, far below 2^63).
AddOverflows(a, b) == b = U64Max /\ a > 0

\* a + b modulo 2^64: what a release build computes.
WrappingAdd(a, b) == a + b

\* x < y on u64.
U64Less(x, y) ==
    IF x = U64Max THEN FALSE
    ELSE IF y = U64Max THEN TRUE
    ELSE x < y

\* TTL of the entry the Data Manager caches after a Storage hit: Some(3600).
RefillTTL == 3600

Keys == {"k1", "k2"}
DataValues == {<<1, 2, 3>>, <<7>>}
\* ttl: Option<u64>: none, expiring at once, a second, and the largest u64.
TtlInputs == {None, Some(0), Some(1), Some(U64Max)}

\* The answer of a send that never completes.
Pending == [ok |-> FALSE, err |-> "pending"]

\* A send that waits forever for an actor that is gone.
SendResult_Hangs(alive, handled) ==
    IF alive THEN Ok(handled) ELSE Pending

\* Address::send on a child whose task runs answers Ok(handler's result);
\* on a child whose task has ended it answers Err(SendError).
SendResult(alive, handled) ==
    IF alive THEN Ok(handled) ELSE Err("SendError")

\* A cache that never looks at the expiry of an entry.
CacheFetchData_NoExpiry(c, key, t) ==
    IF key \in DOMAIN c
    THEN [result |-> Ok(c[key].data), cache |-> c]
    ELSE [result |-> Err("Cache miss"), cache |-> c]

\* A cache that answers a miss with empty data instead of an error.
CacheFetchData_EmptyOnMiss(c, key, t) ==
    IF key \in DOMAIN c
    THEN IF c[key].expires_at # None /\ U64Less(c[key].expires_at[1], t)
         THEN [result |-> Err("Cache entry expired"),
               cache |-> [k \in DOMAIN c \ {key} |-> c[k]]]
         ELSE [result |-> Ok(c[key].data), cache |-> c]
    ELSE [result |-> Ok(<<>>), cache |-> c]

\* A cache that refuses an expired entry and keeps it.
CacheFetchData_KeepsExpired(c, key, t) ==
    IF key \in DOMAIN c
    THEN IF c[key].expires_at # None /\ U64Less(c[key].expires_at[1], t)
         THEN [result |-> Err("Cache entry expired"), cache |-> c]
         ELSE [result |-> Ok(c[key].data), cache |-> c]
    ELSE [result |-> Err("Cache miss"), cache |-> c]

\* Handler<FetchData> for CacheActor: the result and the cache it leaves.
CacheFetchData(c, key, t) ==
    IF key \in DOMAIN c
    THEN IF c[key].expires_at # None /\ U64Less(c[key].expires_at[1], t)
         THEN [result |-> Err("Cache entry expired"),
               cache |-> [k \in DOMAIN c \ {key} |-> c[k]]]
         ELSE [result |-> Ok(c[key].data), cache |-> c]
    ELSE [result |-> Err("Cache miss"), cache |-> c]

\* msg.ttl.map(|ttl| self.get_current_timestamp() + ttl), where the sum stays in u64.
ExpiresAt(ttl, t) ==
    IF ttl = None THEN None ELSE Some(WrappingAdd(t, ttl[1]))

\* Handler<CacheData> for CacheActor: the result, the cache it leaves and
\* whether the actor survives. The sum now + ttl that leaves u64 panics in a
\* build with overflow checks, which ends the actor's task, and wraps otherwise.
CacheStore(c, key, data, ttl, t, checks) ==
    IF ttl # None /\ AddOverflows(t, ttl[1]) /\ checks
    THEN [result |-> Err("panicked"), cache |-> <<>>, alive |-> FALSE]
    ELSE [result |-> Ok("unit"),
          cache |-> [k \in DOMAIN c \cup {key} |->
                        IF k = key
                        THEN [data |-> data, expires_at |-> ExpiresAt(ttl, t)]
                        ELSE c[k]],
          alive |-> TRUE]

\* Handler<FetchData> for StorageActor
StorageFetchData(key) == Err("Storage implementation not available")

\* Handler<StoreData> for StorageActor
StorageStoreData(key, data) == Ok("unit")

\* A FetchData that returns what Storage answered without refilling the Cache.
DataFetchWith_NoRefill(c, alive, storage_result, key, t, checks) ==
    LET hit == IF alive THEN CacheFetchData(c, key, t)
               ELSE [result |-> Err("gone"), cache |-> c]
        cache_result == SendResult(alive, hit.result)
    IN  IF cache_result.ok /\ cache_result.val.ok
        THEN [result |-> Ok(cache_result.val.val),
              calls |-> <<"cache.FetchData">>,
              cache |-> hit.cache, alive |-> alive, refill |-> None]
        ELSE IF storage_result.ok /\ storage_result.val.ok
        THEN [result |-> Ok(storage_result.val.val),
              calls |-> <<"cache.FetchData", "storage.FetchData">>,
              cache |-> hit.cache, alive |-> alive, refill |-> None]
        ELSE [result |-> Err("Data not found"),
              calls |-> <<"cache.FetchData", "storage.FetchData">>,
              cache |-> hit.cache, alive |-> alive, refill |-> None]

\* Handler<FetchData>::handle for DataManagerActor, given what the send to
\* Storage answers (asked only when the Cache gave no data): its result, the
\* children it asked in order, the cache state it leaves and the CacheData it
\* sent after a Storage hit.
DataFetchWith(c, alive, storage_result, key, t, checks) ==
    LET hit == IF alive THEN CacheFetchData(c, key, t)
               ELSE [result |-> Err("gone"), cache |-> c]
        cache_result == SendResult(alive, hit.result)
    IN  IF cache_result.ok /\ cache_result.val.ok
        THEN [result |-> Ok(cache_result.val.val),
              calls |-> <<"cache.FetchData">>,
              cache |-> hit.cache, alive |-> alive, refill |-> None]
        ELSE IF storage_result.ok /\ storage_result.val.ok
        THEN LET refill == IF alive
                           THEN CacheStore(hit.cache, key, storage_result.val.val,
                                           Some(RefillTTL), t, checks)
                           ELSE [result |-> Err("gone"), cache |-> c, alive |-> FALSE]
             IN  [result |-> Ok(storage_result.val.val),
                  calls |-> <<"cache.FetchData", "storage.FetchData", "cache.CacheData">>,
                  cache |-> refill.cache, alive |-> refill.alive,
                  refill |-> Some([key |-> key, data |-> storage_result.val.val,
                                   ttl |-> Some(RefillTTL)])]
        ELSE [result |-> Err("Data not found"),
              calls |-> <<"cache.FetchData", "storage.FetchData">>,
              cache |-> hit.cache, alive |-> alive, refill |-> None]

\* Handler<FetchData> for DataManagerActor with the StorageActor of data.rs
\* behind storage_actor.
DataFetchOutcome(c, alive, sAlive, key, t, checks) ==
    DataFetchWith(c, alive, SendResult(sAlive, StorageFetchData(key)), key, t, checks)

\* What a FetchData with outcome `out` does to the Data Manager and its Cache.
DataFetchApply(key, out) ==
    /\ cache' = out.cache
    /\ cacheAlive' = out.alive
    /\ dataStored' = NoStore
    /\ dataLast' = [op |-> "FetchData", key |-> key, time |-> now,
                    result |-> out.result, calls |-> out.calls,
                    entry |-> IF key \in DOMAIN cache THEN Some(cache[key]) ELSE None,
                    cacheChanged |-> out.cache # cache,
                    follows |-> dataStored,
                    storageWrite |-> "none", cacheWrite |-> "none",
                    refill |-> out.refill]

\* Handler<FetchData> for DataManagerActor: what it does to the Data Manager
\* and its Cache.
DataFetchEffect(key) ==
    DataFetchApply(key, DataFetchOutcome(cache, cacheAlive, storageAlive, key, now,
                                         overflow_checks))

\* A FetchData sent to the Data Manager and handled.
DataFetch(key) ==
    /\ DataFetchEffect(key)
    /\ UNCHANGED <<clockVars, authVars, netVars, supVars, askVars, lifeVars, overflow_checks, storageAlive>>

\* How a send to a child ended: answered Ok, answered Err, or the child is gone.
WriteOutcome(send_result) ==
    IF ~send_result.ok THEN "gone"
    ELSE IF send_result.val.ok THEN "ok" ELSE "err"

\* A StoreData that treats a failed Cache write as a failed store.
DataStoreOutcome_CacheFailureFails(c, alive, sAlive, key, data, ttl, t, checks) ==
    LET storage_result == SendResult(sAlive, StorageStoreData(key, data))
        cached == IF alive
                  THEN CacheStore(c, key, data, ttl, t, checks)
                  ELSE [result |-> Err("gone"), cache |-> c, alive |-> FALSE]
        cache_result == SendResult(cached.alive, cached.result)
    IN  IF storage_result.ok /\ storage_result.val.ok
        THEN [result |-> IF WriteOutcome(cache_result) = "ok"
                         THEN Ok(storage_result.val.val) ELSE Err("SendError"),
              calls |-> <<"storage.StoreData", "cache.CacheData">>,
              cache |-> cached.cache, alive |-> cached.alive,
              storageWrite |-> "ok", cacheWrite |-> WriteOutcome(cache_result)]
        ELSE [result |-> Err("SendError"),
              calls |-> <<"storage.StoreData">>,
              cache |-> c, alive |-> alive,
              storageWrite |-> WriteOutcome(storage_result), cacheWrite |-> "none"]

\* Handler<StoreData>::handle for DataManagerActor: Storage first (`??` returns
\* its error at once), then Cache, whose answer is dropped. Its result, the
\* children it asked in order, the cache state it leaves and how each write ended.
DataStoreOutcome(c, alive, sAlive, key, data, ttl, t, checks) ==
    LET storage_result == SendResult(sAlive, StorageStoreData(key, data))
        cached == IF alive
                  THEN CacheStore(c, key, data, ttl, t, checks)
                  ELSE [result |-> Err("gone"), cache |-> c, alive |-> FALSE]
        cache_result == SendResult(cached.alive, cached.result)
    IN  IF storage_result.ok /\ storage_result.val.ok
        THEN [result |-> Ok(storage_result.val.val),
              calls |-> <<"storage.StoreData", "cache.CacheData">>,
              cache |-> cached.cache, alive |-> cached.alive,
              storageWrite |-> "ok", cacheWrite |-> WriteOutcome(cache_result)]
        ELSE [result |-> Err("SendError"),
              calls |-> <<"storage.StoreData">>,
              cache |-> c, alive |-> alive,
              storageWrite |-> WriteOutcome(storage_result), cacheWrite |-> "none"]

\* Handler<StoreData> for DataManagerActor: what it does to the Data Manager
\* and its Cache.
DataStoreEffect(key, data, ttl) ==
    LET out == DataStoreOutcome(cache, cacheAlive, storageAlive, key, data, ttl,
                                now, overflow_checks)
    IN  /\ cache' = out.cache
        /\ cacheAlive' = out.alive
        /\ dataStored' = IF out.result.ok THEN [key |-> key, data |-> data] ELSE NoStore
        /\ dataLast' = [op |-> "StoreData", key |-> key, time |-> now,
                        result |-> out.result, calls |-> out.calls,
                        entry |-> IF key \in DOMAIN cache THEN Some(cache[key]) ELSE None,
                        cacheChanged |-> out.cache # cache,
                        follows |-> dataStored,
                        storageWrite |-> out.storageWrite, cacheWrite |-> out.cacheWrite,
                        refill |-> None]

\* A StoreData sent to the Data Manager and handled.
DataStore(key, data, ttl) ==
    /\ DataStoreEffect(key, data, ttl)
    /\ UNCHANGED <<clockVars, authVars, netVars, supVars, askVars, lifeVars, overflow_checks, storageAlive>>

\* A cleanup that evicts the entries whose expiry has passed.
CleanupCache_EvictsExpired(c, t) ==
    [k \in {x \in DOMAIN c : ~(c[x].expires_at # None /\ c[x].expires_at[1] < t)} |-> c[k]]

\* The body of cleanup_cache's loop after interval.tick(): a comment. The task
\* holds a default address and sends nothing, so the cache is as it was.
CleanupCache(c, t) == c

\* The interval of cleanup_cache ticks and its loop goes round once.
CleanupCacheTick ==
    /\ cacheAlive
    /\ cache' = CleanupCache(cache, now)
    /\ dataLast' = [op |-> "cleanup_cache", key |-> "none", time |-> now,
                    result |-> Ok("unit"), calls |-> <<>>,
                    entry |-> None,
                    cacheChanged |-> CleanupCache(cache, now) # cache,
                    follows |-> dataStored,
                    storageWrite |-> "none", cacheWrite |-> "none",
                    refill |-> None]
    /\ UNCHANGED <<clockVars, authVars, netVars, supVars, askVars, lifeVars, overflow_checks,
                   cacheAlive, storageAlive, dataStored>>

\* The task of a child of the Data Manager ends: the child is gone.
ChildGone(child) ==
    /\ IF child = "cache"
       THEN cacheAlive /\ cacheAlive' = FALSE /\ cache' = <<>> /\ UNCHANGED storageAlive
       ELSE storageAlive /\ storageAlive' = FALSE /\ UNCHANGED <<cache, cacheAlive>>
    /\ dataStored' = NoStore
    /\ UNCHANGED <<clockVars, authVars, netVars, supVars, askVars, lifeVars, overflow_checks, dataLast>>

\* DataManagerActor::new spawns its Cache (empty) and Storage; the build is
\* one of `builds`: with overflow checks (debug) or without (release).
InitData(builds) ==
    /\ overflow_checks \in builds
    /\ cache = <<>>
    /\ cacheAlive = TRUE
    /\ storageAlive = TRUE
    /\ dataStored = NoStore
    /\ dataLast = [op |-> "none", key |-> "none", time |-> StartTime,
                   result |-> Ok("unit"), calls |-> <<>>, entry |-> None,
                   cacheChanged |-> FALSE, follows |-> NoStore,
                   storageWrite |-> "none", cacheWrite |-> "none", refill |-> None]

\* What a Storage behind storage_actor may answer to FetchData: its Response
\* is Result<Vec<u8>, UserError>.
StorageReplies == {Err("Storage implementation not available")} \cup {Ok(d) : d \in DataValues}

\* The TTLs of the stores that fill the cache in the fetch runs.
FetchTtlInputs == {None, Some(1)}

\* A FetchData sent to the Data Manager and handled, whose send to Storage is
\* answered with `reply`.
DataFetchAnswered(key, reply) ==
    /\ DataFetchApply(key, DataFetchWith(cache, cacheAlive, SendResult(storageAlive, reply),
                                         key, now, overflow_checks))
    /\ UNCHANGED <<clockVars, authVars, netVars, supVars, askVars, lifeVars, overflow_checks, storageAlive>>

\* The Data Manager's fetch against every answer of Storage.
NextFetch ==
    \/ \E key \in Keys, reply \in StorageReplies : DataFetchAnswered(key, reply)
    \/ \E key \in Keys, data \in DataValues, ttl \in FetchTtlInputs : DataStore(key, data, ttl)
    \/ Tick(1)

NextData ==
    \/ \E key \in Keys : DataFetch(key)
    \/ \E key \in Keys, data \in DataValues, ttl \in TtlInputs : DataStore(key, data, ttl)
    \/ Tick(1)

\* ttl of the stores that run beside the cleanup task: none, and expiring at once.
CleanupTtlInputs == {None, Some(0)}

\* The Data Manager and its Cache while the Cache's cleanup task ticks.
NextCleanup ==
    \/ \E key \in Keys : DataFetch(key)
    \/ \E key \in Keys, data \in DataValues, ttl \in CleanupTtlInputs : DataStore(key, data, ttl)
    \/ CleanupCacheTick
    \/ Tick(1)

\* The Data Manager while its children may disappear, at one clock reading.
NextDataLoss ==
    \/ \E key \in Keys : DataFetch(key)
    \/ \E key \in Keys, data \in DataValues, ttl \in TtlInputs : DataStore(key, data, ttl)
    \/ \E child \in {"cache", "storage"} : ChildGone(child)

----------------------------------------------------------------------------
(* The supervisor: actors/supervisor.rs. *)

ActorTypes == {"Auth", "User", "Data", "Network"}

\* Address::<AuthActor>::default(): an address bound to no running actor.
DefaultAddress == 0

\* The address the next tokio::spawn(context.run(actor)) gives, after n others.
NewAddress(n) == Len(spawned) + n

\* The fields of a freshly constructed actor of each kind.
NetworkFields == [kind |-> "Network"]
LeafFields(kind) == [kind |-> kind]
DataFields(network_manager, cache_actor, storage_actor) ==
    [kind |-> "Data", network_manager |-> network_manager,
     cache_actor |-> cache_actor, storage_actor |-> storage_actor]
UserFields(auth_actor) ==
    [kind |-> "User", auth_actor |-> auth_actor, profile_actors |-> <<>>]
AuthFields == [kind |-> "Auth"]

\* f extended to the new addresses of g.
Extend(f, g) ==
    [a \in DOMAIN f \cup DOMAIN g |-> IF a \in DOMAIN g THEN g[a] ELSE f[a]]

\* The last address of a kind that was spawned.
Latest(kind) ==
    CHOOSE a \in 1..Len(spawned) :
        /\ spawned[a] = kind
        /\ \A b \in 1..Len(spawned) : spawned[b] = kind => b <= a

\* A Data Manager that leaves its field alone when the update arrives.
ApplyUpdateNetworkDependency_Ignored(f, network_addr) == f

\* Notifiable<UpdateNetworkDependency>::notify: self.network_manager = msg.0
ApplyUpdateNetworkDependency(f, network_addr) ==
    [f EXCEPT !.network_manager = network_addr]

\* A Data Manager takes the oldest UpdateNetworkDependency from its mailbox.
DataUpdateNetworkDependency(dm) ==
    /\ mailboxes[dm] # <<>>
    /\ fields' = [fields EXCEPT ![dm] = ApplyUpdateNetworkDependency(@, Head(mailboxes[dm]))]
    /\ mailboxes' = [mailboxes EXCEPT ![dm] = Tail(@)]
    /\ UNCHANGED <<spawned, supervisor, recovered>>
    /\ UNCHANGED <<clockVars, authVars, netVars, dataVars, askVars, lifeVars>>

\* A supervisor that spawns the new Network actor and keeps the old address.
SetNetworkManager_Kept(sup, network_addr) == sup

\* self.network_manager = network_addr.clone()
SetNetworkManager(sup, network_addr) ==
    [sup EXCEPT !.network_manager = network_addr]

\* A recovery that replaces the Auth actor like any other kind.
AuthRecovery_Respawn(sp, fl) ==
    [spawned |-> Append(sp, "Auth"), fields |-> Append(fl, [kind |-> "Auth"])]

\* The ActorType::Auth arm: a debug_print, nothing spawned.
AuthRecovery(sp, fl) ==
    [spawned |-> sp, fields |-> fl]

\* A Data recovery that hands the new Data Manager the Network address the old
\* one holds.
DataRecoveryNetwork_FromOld(sup, fl) == fl[sup.data_manager].network_manager

\* The Network address the Data arm gives the Data Manager it constructs:
\* DataManagerActor::new(self.network_manager.clone()).
DataRecoveryNetwork(sup, fl) == sup.network_manager

\* AppSupervisor::handle_actor_failure(actor_type)
HandleActorFailure(actor_type) ==
    /\ Len(recovered) < MaxRecoveries
    /\ recovered' = Append(recovered, actor_type)
    /\ CASE actor_type = "Network" ->
            LET network_addr == NewAddress(1) IN
            /\ spawned' = Append(spawned, "Network")
            /\ fields' = Extend(fields, network_addr :> NetworkFields)
            /\ supervisor' = SetNetworkManager(supervisor, network_addr)
            /\ mailboxes' = [Extend(mailboxes, network_addr :> <<>>)
                                EXCEPT ![supervisor.data_manager] = Append(@, network_addr)]
         [] actor_type = "Data" ->
            LET cache_addr == NewAddress(1)
                storage_addr == NewAddress(2)
                data_addr == NewAddress(3)
            IN
            /\ spawned' = spawned \o <<"Cache", "Storage", "Data">>
            /\ fields' = Extend(fields,
                                cache_addr :> LeafFields("Cache")
                                @@ storage_addr :> LeafFields("Storage")
                                @@ data_addr :> DataFields(DataRecoveryNetwork(supervisor, fields),
                                                           cache_addr, storage_addr))
            /\ supervisor' = [supervisor EXCEPT !.data_manager = data_addr]
            /\ mailboxes' = Extend(mailboxes,
                                   cache_addr :> <<>> @@ storage_addr :> <<>>
                                   @@ data_addr :> <<>>)
         [] actor_type = "User" ->
            LET user_addr == NewAddress(1) IN
            /\ spawned' = Append(spawned, "User")
            /\ fields' = Extend(fields, user_addr :> UserFields(DefaultAddress))
            /\ supervisor' = [supervisor EXCEPT !.user_manager = user_addr]
            /\ mailboxes' = Extend(mailboxes, user_addr :> <<>>)
         [] actor_type = "Auth" ->
            LET kept == AuthRecovery(spawned, fields) IN
            /\ spawned' = kept.spawned
            /\ fields' = kept.fields
            /\ mailboxes' = [a \in 1..Len(kept.spawned) |->
                                IF a \in DOMAIN mailboxes THEN mailboxes[a] ELSE <<>>]
            /\ UNCHANGED supervisor
    /\ UNCHANGED <<clockVars, authVars, netVars, dataVars, askVars, lifeVars>>

\* Before anything is spawned.
EmptyTree == [spawned |-> <<>>, fields |-> <<>>]

\* tokio::spawn(context.run(actor)): the actor joins the running ones; its
\* address is its place in the spawn order.
SpawnIn(tree, kind, f) ==
    [spawned |-> Append(tree.spawned, kind), fields |-> Append(tree.fields, f)]

\* The address of the actor spawned last.
LastSpawned(tree) == Len(tree.spawned)

\* DataManagerActor::new(network_manager) and the spawn of the result: the
\* Cache, then the Storage, then the Data Manager holding the three addresses.
SpawnDataManager(tree, network_manager) ==
    LET t1 == SpawnIn(tree, "Cache", LeafFields("Cache"))
        cache_addr == LastSpawned(t1)
        t2 == SpawnIn(t1, "Storage", LeafFields("Storage"))
        storage_addr == LastSpawned(t2)
    IN  SpawnIn(t2, "Data", DataFields(network_manager, cache_addr, storage_addr))

\* A constructor that wires the User Manager the way the recovery does, with
\* an address bound to no actor.
AppSupervisorNew_UnboundAuth ==
    LET t1 == SpawnIn(EmptyTree, "Network", NetworkFields)
        network_addr == LastSpawned(t1)
        t2 == SpawnDataManager(t1, network_addr)
        data_addr == LastSpawned(t2)
        t3 == SpawnIn(t2, "Auth", AuthFields)
        t4 == SpawnIn(t3, "User", UserFields(DefaultAddress))
        user_addr == LastSpawned(t4)
    IN  [tree |-> t4,
         supervisor |-> [user_manager |-> user_addr, data_manager |-> data_addr,
                         network_manager |-> network_addr]]

\* AppSupervisor::new: Network, then Data (which spawns its Cache and Storage
\* while it is constructed) with the Network's address, then Auth, then User
\* with the Auth's address.
AppSupervisorNew ==
    LET t1 == SpawnIn(EmptyTree, "Network", NetworkFields)
        network_addr == LastSpawned(t1)
        t2 == SpawnDataManager(t1, network_addr)
        data_addr == LastSpawned(t2)
        t3 == SpawnIn(t2, "Auth", AuthFields)
        auth_addr == LastSpawned(t3)
        t4 == SpawnIn(t3, "User", UserFields(auth_addr))
        user_addr == LastSpawned(t4)
    IN  [tree |-> t4,
         supervisor |-> [user_manager |-> user_addr, data_manager |-> data_addr,
                         network_manager |-> network_addr]]

\* create_actors: the signal it sends to Dart once AppSupervisor::new has
\* returned and the supervisor is spawned.
ActorsCreatedSignal ==
    [actor_count |-> 5,
     initialized_actors |-> <<"AppSupervisor", "UserManagerActor", "DataManagerActor",
                              "NetworkManagerActor", "AuthActor">>]

\* The state AppSupervisor::new leaves: every mailbox empty, no recovery yet.
InitSup ==
    /\ spawned = AppSupervisorNew.tree.spawned
    /\ fields = AppSupervisorNew.tree.fields
    /\ supervisor = AppSupervisorNew.supervisor
    /\ mailboxes = [a \in 1..Len(AppSupervisorNew.tree.spawned) |-> <<>>]
    /\ recovered = <<>>

NextSup ==
    \/ \E actor_type \in ActorTypes : HandleActorFailure(actor_type)
    \/ \E dm \in DOMAIN mailboxes : DataUpdateNetworkDependency(dm)

----------------------------------------------------------------------------
(* Requests that travel through the tree: a client asks the supervisor, the *)
(* User Manager or the Data Manager, whose handler asks its children in     *)
(* turn. actors/supervisor.rs, actors/user.rs, actors/data.rs.              *)

\* How many actors of the tree disappear in a run.
MaxGone == 1
\* How many times the User Manager is replaced in a run of requests.
MaxAskRecoveries == 1

\* The supervisor's own address (self_addr); it is none of the spawned actors.
SupervisorAddress == -1

\* The Dart side of the signal channel; it is none of the spawned actors.
DartSide == -2

\* An address no send can reach: bound to no actor, or the actor's task ended.
Unbound(a) == a = DefaultAddress \/ a \in gone

\* UserProfileActor::new(user_id)
ProfileFields(user_id) == [kind |-> "Profile", user_id |-> user_id, profile |-> None]

\* UserProfileActor::create_default_profile
DefaultProfile(user_id) ==
    [user_id |-> user_id,
     name |-> <<"User ", user_id>>,
     email |-> <<"user", user_id, "@example.com">>,
     avatar_url |-> None,
     preferences |-> [theme |-> "light", notifications_enabled |-> TRUE,
                      language |-> "en"]]

\* A User Manager that spawns a profile actor at every access.
GetOrCreateProfileActor_AlwaysSpawn(um, user_id) ==
    LET addr == NewAddress(1) IN
    [addr |-> addr,
     spawned |-> Append(spawned, "Profile"),
     fields |-> [Extend(fields, addr :> ProfileFields(user_id))
                    EXCEPT ![um].profile_actors =
                        [u \in DOMAIN @ \cup {user_id} |-> IF u = user_id THEN addr ELSE @[u]]],
     mailboxes |-> Extend(mailboxes, addr :> <<>>)]

\* UserManagerActor::get_or_create_profile_actor: the address stored for the
\* user, or a freshly spawned UserProfileActor whose address is stored.
GetOrCreateProfileActor(um, user_id) ==
    IF user_id \in DOMAIN fields[um].profile_actors
    THEN [addr |-> fields[um].profile_actors[user_id],
          spawned |-> spawned, fields |-> fields, mailboxes |-> mailboxes]
    ELSE LET addr == NewAddress(1) IN
         [addr |-> addr,
          spawned |-> Append(spawned, "Profile"),
          fields |-> [Extend(fields, addr :> ProfileFields(user_id))
                         EXCEPT ![um].profile_actors = Extend(@, user_id :> addr)],
          mailboxes |-> Extend(mailboxes, addr :> <<>>)]

\* The handler an actor starts for a message it takes from its mailbox.
NewFrame(addr, kind, args) ==
    [addr |-> addr, kind |-> kind, args |-> args, pc |-> 1, acc |-> <<>>, answer |-> None]

\* No request has completed yet.
NoAsk == [kind |-> "none", args |-> <<>>, result |-> Ok("unit"), trace |-> <<>>]

\* What the clients send: ProcessLogin to the supervisor, Login to the User
\* Manager, FetchData and StoreData to the Data Manager.
AskRequests ==
    {[to |-> "supervisor", kind |-> "ProcessLogin", args |-> <<"demo", p>>] : p \in Passwords}
    \cup {[to |-> "user_manager", kind |-> "UserLogin", args |-> <<"demo", "password">>],
          [to |-> "data_manager", kind |-> "FetchData", args |-> <<"k1">>],
          [to |-> "data_manager", kind |-> "StoreData", args |-> <<"k1", <<7>>, None>>]}

\* The address a client holds for the actor it asks.
AddressOf(to) ==
    CASE to = "supervisor" -> SupervisorAddress
      [] to = "user_manager" -> supervisor.user_manager
      [] to = "data_manager" -> supervisor.data_manager

\* `.await??` and `if let Ok(Ok(..))`: whether an answer carries no value, and
\* the error the handler returns then.
Failed(answer) == ~answer.ok \/ ~answer.val.ok
ErrorOf(answer) == IF ~answer.ok THEN Err(answer.err) ELSE answer.val

\* The innermost handler in progress.
TopFrame == asks[Len(asks)]

\* The stack once the innermost handler returned `result`: its caller, if any,
\* holds the answer of its send.
Returned(result) ==
    IF Len(asks) = 1 THEN <<>>
    ELSE [SubSeq(asks, 1, Len(asks) - 1)
             EXCEPT ![Len(asks) - 1].answer = Some(SendResult(TRUE, result))]

\* The completed request, when the handler that returned was the client's.
Completed(result, trace) ==
    IF Len(asks) = 1
    THEN [kind |-> asks[1].kind, args |-> asks[1].args,
          result |-> SendResult(TRUE, result), trace |-> trace]
    ELSE askLast

\* address.send(msg) by the innermost handler: the send fails at once when the
\* target is unbound, and otherwise the target starts its handler.
CallStep(target, kind, args) ==
    /\ askTrace' = Append(askTrace, [from |-> TopFrame.kind, to |-> kind, target |-> target,
                                     delivered |-> ~Unbound(target)])
    /\ asks' = IF Unbound(target)
               THEN [asks EXCEPT ![Len(asks)].answer = Some(SendResult(FALSE, Err("gone")))]
               ELSE Append(asks, NewFrame(target, kind, args))
    /\ UNCHANGED <<gone, askLast>>

\* The innermost handler returns `result`.
ReturnStep(result) ==
    /\ asks' = Returned(result)
    /\ askLast' = Completed(result, askTrace)
    /\ UNCHANGED <<gone, askTrace>>

\* The innermost handler sends `signals` to Dart and returns `result`.
ReturnSignalling(result, signals) ==
    /\ asks' = Returned(result)
    /\ askTrace' = askTrace \o signals
    /\ askLast' = Completed(result, askTrace \o signals)
    /\ UNCHANGED gone

\* The innermost handler goes on to its next send, keeping `acc`.
AdvanceStep(acc) ==
    /\ asks' = [asks EXCEPT ![Len(asks)] =
                   [@ EXCEPT !.pc = @ + 1, !.acc = acc, !.answer = None]]
    /\ UNCHANGED <<gone, askTrace, askLast>>

\* What a step of a request leaves alone outside the tree.
KeepTree == UNCHANGED <<spawned, fields, mailboxes>>
KeepRest == UNCHANGED <<clockVars, netVars, supervisor, recovered, lifeVars>>

\* A ProcessLogin that loads the recent data before the profile.
ProcessLoginSteps_DataFirst == <<"UserLogin", "FetchRecentData", "UserGetProfile">>

\* The sends of Handler<ProcessLogin>::handle, in the order of its statements:
\* Login and GetProfile to the User Manager, FetchRecentData to the Data
\* Manager.
ProcessLoginSteps == <<"UserLogin", "UserGetProfile", "FetchRecentData">>

\* Handler<ProcessLogin> for AppSupervisor: each send is `.await??`, so the
\* first answer that carries no value is returned as the error; after the last
\* one the UserSession is built from what the sends answered.
ProcessLoginStep ==
    LET f == TopFrame
        step == ProcessLoginSteps[f.pc]
    IN
    /\ f.kind = "ProcessLogin"
    /\ KeepTree /\ KeepRest /\ UNCHANGED <<authVars, dataVars>>
    /\ IF f.answer = None
       THEN CASE step = "UserLogin" ->
                   CallStep(supervisor.user_manager, "UserLogin", f.args)
              [] step = "UserGetProfile" ->
                   CallStep(supervisor.user_manager, "UserGetProfile",
                            <<f.acc["UserLogin"].user_id>>)
              [] step = "FetchRecentData" ->
                   CallStep(supervisor.data_manager, "FetchRecentData",
                            <<f.acc["UserLogin"].user_id, Some(5)>>)
       ELSE /\ f.answer[1] # Pending
            /\ IF Failed(f.answer[1]) THEN ReturnStep(ErrorOf(f.answer[1]))
               ELSE LET acc == Extend(f.acc, step :> f.answer[1].val.val)
                    IN  IF f.pc < Len(ProcessLoginSteps)
                        THEN AdvanceStep(acc)
                        ELSE ReturnStep(Ok([token |-> acc["UserLogin"].token,
                                            profile |-> acc["UserGetProfile"],
                                            recent_data |-> acc["FetchRecentData"]]))

\* Handler<Login> for UserManagerActor: the Login goes to the Auth actor
\* (`.await??`), then the user's profile actor is created if there is none.
UserLoginStep ==
    LET f == TopFrame IN
    /\ f.kind = "UserLogin"
    /\ KeepRest /\ UNCHANGED <<authVars, dataVars>>
    /\ IF f.answer = None
       THEN KeepTree /\ CallStep(fields[f.addr].auth_actor, "AuthLogin", f.args)
       ELSE /\ f.answer[1] # Pending
            /\ IF Failed(f.answer[1])
               THEN KeepTree /\ ReturnStep(ErrorOf(f.answer[1]))
               ELSE LET auth_result == f.answer[1].val.val
                        got == GetOrCreateProfileActor(f.addr, auth_result.user_id)
                    IN  /\ spawned' = got.spawned
                        /\ fields' = got.fields
                        /\ mailboxes' = got.mailboxes
                        /\ ReturnStep(Ok(auth_result))

\* Handler<GetProfile> for UserManagerActor: the profile actor is created if
\* there is none, then asked (`.await?`).
UserGetProfileStep ==
    LET f == TopFrame IN
    /\ f.kind = "UserGetProfile"
    /\ KeepRest /\ UNCHANGED <<authVars, dataVars>>
    /\ IF f.answer = None
       THEN LET got == GetOrCreateProfileActor(f.addr, f.args[1])
            IN  /\ spawned' = got.spawned
                /\ fields' = got.fields
                /\ mailboxes' = got.mailboxes
                /\ CallStep(got.addr, "ProfileGetProfile", f.args)
       ELSE /\ f.answer[1] # Pending
            /\ KeepTree
            /\ IF ~f.answer[1].ok THEN ReturnStep(Err(f.answer[1].err))
               ELSE ReturnStep(f.answer[1].val)

\* The handlers that ask no other actor: Handler<Login> for AuthActor,
\* Handler<GetProfile> for UserProfileActor, and the Data Manager's
\* FetchRecentData, FetchData and StoreData with their Cache and Storage.
LeafStep ==
    LET f == TopFrame IN
    /\ KeepRest
    /\ CASE f.kind = "AuthLogin" ->
              /\ ReturnStep(LoginOutcome(active_sessions, f.args[1], f.args[2], now).result)
              /\ LoginEffect(f.args[1], f.args[2])
              /\ KeepTree /\ UNCHANGED dataVars
         [] f.kind = "ProfileGetProfile" ->
              LET profile == IF fields[f.addr].profile = None
                             THEN DefaultProfile(fields[f.addr].user_id)
                             ELSE fields[f.addr].profile[1]
              IN  /\ ReturnStep(Ok(profile))
                  /\ fields' = [fields EXCEPT ![f.addr].profile = Some(profile)]
                  /\ UNCHANGED <<spawned, mailboxes, authVars, dataVars>>
         [] f.kind = "FetchRecentData" ->
              /\ ReturnStep(Ok([user_id |-> f.args[1], items |-> f.args[2][1]]))
              /\ KeepTree /\ UNCHANGED <<authVars, dataVars>>
         [] f.kind = "FetchData" ->
              /\ ReturnStep(DataFetchOutcome(cache, cacheAlive, storageAlive, f.args[1], now,
                                             overflow_checks).result)
              /\ DataFetchEffect(f.args[1])
              /\ KeepTree /\ UNCHANGED <<authVars, overflow_checks, storageAlive>>
         [] f.kind = "StoreData" ->
              /\ ReturnStep(DataStoreOutcome(cache, cacheAlive, storageAlive, f.args[1],
                                             f.args[2], f.args[3], now, overflow_checks).result)
              /\ DataStoreEffect(f.args[1], f.args[2], f.args[3])
              /\ KeepTree /\ UNCHANGED <<authVars, overflow_checks, storageAlive>>

LeafKinds == {"AuthLogin", "ProfileGetProfile", "FetchRecentData", "FetchData", "StoreData"}

\* How far the request in progress has come: every step of a handler sends
\* (the trace grows), returns (the stack shrinks) or moves to its next send.
askProgress == <<Len(asks), Len(askTrace), IF asks = <<>> THEN 0 ELSE TopFrame.pc>>

\* The innermost handler in progress takes its next step.
AskStep ==
    /\ asks # <<>>
    /\ \/ ProcessLoginStep
       \/ UserLoginStep
       \/ UserGetProfileStep
       \/ (TopFrame.kind \in LeafKinds /\ LeafStep)

\* A User Manager that tells every profile actor it holds of the update.
ProfileUpdated_AllActors(fl, um, user_id, profile) ==
    [a \in DOMAIN fl |->
        IF \E u \in DOMAIN fl[um].profile_actors : fl[um].profile_actors[u] = a
        THEN [fl[a] EXCEPT !.profile = Some(profile)]
        ELSE fl[a]]

\* Notifiable<UserEvent>::notify for ProfileUpdated, called by the handler of
\* UpdateProfile on itself: the user's profile actor, if one is stored, is
\* notified of UpdateProfileCache(profile) and stores the profile. The
\* notification is the next message of that actor's mailbox, ahead of whatever
\* the User Manager sends it later.
ProfileUpdated(fl, um, user_id, profile) ==
    IF user_id \in DOMAIN fl[um].profile_actors
       /\ ~Unbound(fl[um].profile_actors[user_id])
    THEN [fl EXCEPT ![fl[um].profile_actors[user_id]].profile = Some(profile)]
    ELSE fl

\* ProfileUpdatedSignal { user_id, profile }.send_signal_to_dart()
ProfileUpdatedSignal(user_id, profile) ==
    [from |-> "UserUpdateProfile", to |-> "ProfileUpdatedSignal", target |-> DartSide,
     delivered |-> TRUE, user_id |-> user_id, profile |-> profile]

\* What the ProfileUpdated arm of Notifiable<UserEvent>::notify sends to Dart.
ProfileUpdatedSignals(user_id, profile) == <<ProfileUpdatedSignal(user_id, profile)>>

\* Handler<UpdateProfile> for UserManagerActor: the profile actor is created
\* if there is none, then asked (`.await?`); after an Ok the ProfileUpdated
\* event is handled.
UserUpdateProfileStep ==
    LET f == TopFrame IN
    /\ f.kind = "UserUpdateProfile"
    /\ KeepRest /\ UNCHANGED <<authVars, dataVars>>
    /\ IF f.answer = None
       THEN LET got == GetOrCreateProfileActor(f.addr, f.args[1])
            IN  /\ spawned' = got.spawned
                /\ fields' = got.fields
                /\ mailboxes' = got.mailboxes
                /\ CallStep(got.addr, "ProfileUpdateProfile", f.args)
       ELSE /\ f.answer[1] # Pending
            /\ UNCHANGED <<spawned, mailboxes>>
            /\ IF ~f.answer[1].ok
               THEN UNCHANGED fields /\ ReturnStep(Err(f.answer[1].err))
               ELSE IF f.answer[1].val.ok
                    THEN /\ ReturnSignalling(f.answer[1].val,
                                             ProfileUpdatedSignals(f.args[1], f.args[2]))
                         /\ fields' = ProfileUpdated(fields, f.addr, f.args[1], f.args[2])
                    ELSE /\ ReturnStep(f.answer[1].val)
                         /\ UNCHANGED fields

\* Handler<UpdateProfile> for UserProfileActor: self.profile = Some(msg.profile)
ProfileUpdateProfileStep ==
    LET f == TopFrame IN
    /\ f.kind = "ProfileUpdateProfile"
    /\ KeepRest /\ UNCHANGED <<authVars, dataVars>>
    /\ fields' = [fields EXCEPT ![f.addr].profile = Some(f.args[2])]
    /\ UNCHANGED <<spawned, mailboxes>>
    /\ ReturnStep(Ok("unit"))

\* A handler that sets the preferences a request leaves out to their defaults.
ApplyPreferences_ResetsAbsent(profile, theme, notifications_enabled, language) ==
    [profile EXCEPT !.preferences =
        [theme |-> IF theme # None THEN theme[1] ELSE "light",
         notifications_enabled |-> IF notifications_enabled # None
                                   THEN notifications_enabled[1] ELSE TRUE,
         language |-> IF language # None THEN language[1] ELSE "en"]]

\* The three `if let Some(..) = msg.field` of the handler of
\* UpdatePreferencesRequest, applied to the profile GetProfile returned.
ApplyPreferences(profile, theme, notifications_enabled, language) ==
    [profile EXCEPT !.preferences =
        [theme |-> IF theme # None THEN theme[1] ELSE @.theme,
         notifications_enabled |-> IF notifications_enabled # None
                                   THEN notifications_enabled[1]
                                   ELSE @.notifications_enabled,
         language |-> IF language # None THEN language[1] ELSE @.language]]

\* Notifiable<UpdatePreferencesRequest> for UserManagerActor: the handler
\* calls its own handler of GetProfile; if that is Ok it changes the fields
\* the request carries and calls its own handler of UpdateProfile, whose
\* result it drops.
UpdatePreferencesStep ==
    LET f == TopFrame IN
    /\ f.kind = "UpdatePreferencesRequest"
    /\ KeepRest /\ KeepTree /\ UNCHANGED <<authVars, dataVars>>
    /\ IF f.answer = None
       THEN IF f.pc = 1
            THEN CallStep(f.addr, "UserGetProfile", <<f.args[1]>>)
            ELSE CallStep(f.addr, "UserUpdateProfile",
                          <<f.args[1],
                            ApplyPreferences(f.acc["UserGetProfile"],
                                             f.args[2], f.args[3], f.args[4])>>)
       ELSE /\ f.answer[1] # Pending
            /\ IF f.pc = 1 /\ ~Failed(f.answer[1])
               THEN AdvanceStep("UserGetProfile" :> f.answer[1].val.val)
               ELSE ReturnStep(Ok("unit"))

\* The values an UpdatePreferencesRequest carries in its optional fields.
ThemeInputs == {None, Some("dark")}
NotificationInputs == {None, Some(FALSE)}
LanguageInputs == {None, Some("ko")}

\* The user ids the clients ask about, and the profile a client writes.
UserIds == {"user_1", "user_2"}
WrittenProfile(user_id) ==
    [user_id |-> user_id,
     name |-> <<"Renamed">>,
     email |-> <<"renamed@example.com">>,
     avatar_url |-> Some("a.png"),
     preferences |-> [theme |-> "dark", notifications_enabled |-> FALSE,
                      language |-> "ko"]]

\* Another profile a client writes: the default one under a new name.
RenamedProfile(user_id) ==
    [DefaultProfile(user_id) EXCEPT !.name = <<"Second">>]

\* The profiles an UpdateProfile carries.
ProfileInputs(user_id) == {WrittenProfile(user_id), RenamedProfile(user_id)}

\* What the clients send to the User Manager: Login, GetProfile, UpdateProfile
\* and, from Dart, UpdatePreferencesRequest.
UserRequests ==
    {[to |-> "user_manager", kind |-> "UserLogin", args |-> <<"demo", p>>] : p \in Passwords}
    \cup {[to |-> "user_manager", kind |-> "UserGetProfile", args |-> <<u>>] : u \in UserIds}
    \cup UNION {{[to |-> "user_manager", kind |-> "UserUpdateProfile",
                   args |-> <<u, profile>>] : profile \in ProfileInputs(u)} : u \in UserIds}
    \cup {[to |-> "user_manager", kind |-> "UpdatePreferencesRequest",
           args |-> <<u, theme, notifications_enabled, language>>] :
              u \in UserIds, theme \in ThemeInputs,
              notifications_enabled \in NotificationInputs, language \in LanguageInputs}

\* The innermost handler of a request to the User Manager takes its next step.
UserStep ==
    /\ asks # <<>>
    /\ \/ UserLoginStep
       \/ UserGetProfileStep
       \/ UserUpdateProfileStep
       \/ ProfileUpdateProfileStep
       \/ UpdatePreferencesStep
       \/ (TopFrame.kind \in {"AuthLogin", "ProfileGetProfile"} /\ LeafStep)

\* A client sends a request and awaits the answer; a send to an unbound
\* address is answered at once.
AskSend(req) ==
    /\ asks = <<>>
    /\ askTrace' = <<>>
    /\ IF Unbound(AddressOf(req.to))
       THEN /\ asks' = <<>>
            /\ askLast' = [kind |-> req.kind, args |-> req.args,
                           result |-> SendResult(FALSE, Err("gone")), trace |-> <<>>]
       ELSE /\ asks' = <<NewFrame(AddressOf(req.to), req.kind, req.args)>>
            /\ askLast' = NoAsk
    /\ UNCHANGED <<clockVars, authVars, netVars, dataVars, supVars, lifeVars, gone>>

\* The actors of the tree a request can reach through the supervisor.
Reachable ==
    LET um == supervisor.user_manager IN
    {um, supervisor.data_manager, Latest("Auth")}
    \cup {fields[um].profile_actors[u] : u \in DOMAIN fields[um].profile_actors}

\* The task of an actor of the tree ends while the actor awaits nothing: a
\* message it was about to handle is dropped and the sender's send fails.
ActorGone(a) ==
    /\ Cardinality(gone) < MaxGone
    /\ a \notin gone
    /\ \A i \in 1..(Len(asks) - 1) : asks[i].addr # a
    /\ gone' = gone \cup {a}
    /\ IF asks # <<>> /\ TopFrame.addr = a
       THEN /\ asks' = IF Len(asks) = 1 THEN <<>>
                       ELSE [SubSeq(asks, 1, Len(asks) - 1)
                                EXCEPT ![Len(asks) - 1].answer =
                                           Some(SendResult(FALSE, Err("gone")))]
            /\ askLast' = IF Len(asks) = 1
                          THEN [kind |-> asks[1].kind, args |-> asks[1].args,
                                result |-> SendResult(FALSE, Err("gone")),
                                trace |-> askTrace]
                          ELSE askLast
       ELSE UNCHANGED <<asks, askLast>>
    /\ UNCHANGED <<clockVars, authVars, netVars, dataVars, supVars, lifeVars, askTrace>>

\* handle_actor_failure runs between two requests.
RecoverBetweenRequests(actor_type) ==
    /\ asks = <<>>
    /\ Len(recovered) < MaxAskRecoveries
    /\ HandleActorFailure(actor_type)

\* A handler that rebuilds the supervisor's child addresses when asked to
\* reset: it puts back the addresses the constructor stored.
InitializeAppFields_ResetsChildren(sup, reset_state) ==
    IF reset_state THEN AppSupervisorNew.supervisor ELSE sup

\* The supervisor's fields after Notifiable<InitializeAppRequest>::notify: the
\* handler reads msg.reset_state for a debug_print and assigns no field.
InitializeAppFields(sup, reset_state) == sup

\* Notifiable<InitializeAppRequest>::notify, handled between two requests (the
\* supervisor runs one handler at a time): AppInitializedSignal { success:
\* true, version, initialized_at: now } is sent to Dart.
InitializeAppRequest(reset_state) ==
    /\ asks = <<>>
    /\ supervisor' = InitializeAppFields(supervisor, reset_state)
    /\ askTrace' = <<>>
    /\ askLast' = [kind |-> "InitializeAppRequest", args |-> <<reset_state>>,
                   result |-> Ok("unit"),
                   trace |-> <<[from |-> "InitializeAppRequest",
                                to |-> "AppInitializedSignal",
                                target |-> DartSide, delivered |-> TRUE,
                                success |-> TRUE, initialized_at |-> now]>>]
    /\ UNCHANGED <<clockVars, authVars, netVars, dataVars, lifeVars, gone, asks,
                   spawned, fields, mailboxes, recovered>>

\* No actor has disappeared, no request is in progress.
InitAsk ==
    /\ gone = {}
    /\ asks = <<>>
    /\ askTrace = <<>>
    /\ askLast = NoAsk

NextAsk ==
    \/ \E req \in AskRequests : AskSend(req)
    \/ AskStep
    \/ \E a \in Reachable : ActorGone(a)
    \/ ChildGone("storage")
    \/ RecoverBetweenRequests("User")

\* What the clients send the supervisor.
SupervisorRequests == {req \in AskRequests : req.to = "supervisor"}

\* The supervisor handling its messages, ProcessLogin from a client and
\* InitializeAppRequest from Dart, with recoveries between them.
NextSupervisor ==
    \/ \E req \in SupervisorRequests : AskSend(req)
    \/ AskStep
    \/ \E actor_type \in ActorTypes : RecoverBetweenRequests(actor_type)
    \/ \E reset_state \in BOOLEAN : InitializeAppRequest(reset_state)

\* The User Manager serving its clients, one request at a time.
NextUser ==
    \/ \E req \in UserRequests : AskSend(req)
    \/ UserStep

----------------------------------------------------------------------------
(* The life of an actor that owns a task: the clones of its address, its    *)
(* mailbox, its loop and the task in its _owned_tasks.                      *)

MaxHolders == 2
MaxQueued == 2
MaxClicks == 2

\* The actors whose constructor spawns a looping task into _owned_tasks.
LifeActors == {"Auth", "Cache", "Counting"}

\* What the constructor hands to the task: AuthActor::new and
\* CountingActor::new pass the self_addr they were given, CacheActor::new
\* passes Address::default().
TaskAddress(actor) ==
    CASE actor = "Auth" -> "self"
      [] actor = "Cache" -> "default"
      [] actor = "Counting" -> "self"

\* What wakes the task's loop: interval.tick() or the Dart signal receiver.
TaskSource(actor) ==
    CASE actor = "Auth" -> "interval"
      [] actor = "Cache" -> "interval"
      [] actor = "Counting" -> "signal"

\* The clones held outside the actor once its creator has returned: the User
\* Manager's auth_actor, the Data Manager's cache_actor; create_actors moves
\* its only clone of counting_addr into CountingActor::new.
OutsideHolders(actor) ==
    CASE actor = "Auth" -> 1
      [] actor = "Cache" -> 1
      [] actor = "Counting" -> 0

\* The senders of the actor's mailbox: the outside clones and, while the task
\* lives, the clone the task was given.
Senders(actor) ==
    holders[actor] + (IF tasks[actor] = "running" /\ TaskAddress(actor) = "self"
                      THEN 1 ELSE 0)

\* The mailbox is closed when no sender is left.
MailboxClosed(actor) == Senders(actor) = 0

\* Address::clone by an outside holder.
CloneAddress(actor) ==
    /\ holders[actor] \in 1..(MaxHolders - 1)
    /\ holders' = [holders EXCEPT ![actor] = @ + 1]
    /\ UNCHANGED <<clockVars, authVars, netVars, dataVars, supVars, askVars,
                   tasks, running, queued, count>>

\* An outside holder drops its clone.
DropAddress(actor) ==
    /\ holders[actor] > 0
    /\ holders' = [holders EXCEPT ![actor] = @ - 1]
    /\ UNCHANGED <<clockVars, authVars, netVars, dataVars, supVars, askVars,
                   tasks, running, queued, count>>

\* One turn of the task's loop: check_token_expiry and listen_to_button_click
\* notify the actor through their clone (cleanup_cache sends nothing). At
\* most MaxClicks signals come from Dart.
TaskNotify(actor) ==
    /\ tasks[actor] = "running"
    /\ TaskAddress(actor) = "self"
    /\ running[actor]
    /\ queued[actor] < MaxQueued
    /\ TaskSource(actor) = "signal" => count + 7 * (queued[actor] + 1) <= 7 * MaxClicks
    /\ queued' = [queued EXCEPT ![actor] = @ + 1]
    /\ UNCHANGED <<clockVars, authVars, netVars, dataVars, supVars, askVars,
                   holders, tasks, running, count>>

\* The actor's loop takes the task's notification: the sweep for the Auth
\* actor, Notifiable<SampleNumberInput> (count += 7, far below i32::MAX here)
\* for the CountingActor.
Deliver(actor) ==
    /\ running[actor]
    /\ queued[actor] > 0
    /\ queued' = [queued EXCEPT ![actor] = @ - 1]
    /\ IF actor = "Auth"
       THEN CheckExpiredTokensEffect /\ UNCHANGED count
       ELSE count' = count + 7 /\ UNCHANGED authVars
    /\ UNCHANGED <<clockVars, netVars, dataVars, supVars, askVars,
                   holders, tasks, running>>

\* receiver.recv() returns None: listen_to_button_click returns and its clone
\* is dropped.
SignalSourceCloses(actor) ==
    /\ TaskSource(actor) = "signal"
    /\ tasks[actor] = "running"
    /\ tasks' = [tasks EXCEPT ![actor] = "finished"]
    /\ UNCHANGED <<clockVars, authVars, netVars, dataVars, supVars, askVars,
                   holders, running, queued, count>>

\* context.run(actor) returns once the mailbox is closed and drained; the
\* actor is dropped, and its JoinSet aborts the task it still holds.
LoopEnds(actor) ==
    /\ running[actor]
    /\ queued[actor] = 0
    /\ MailboxClosed(actor)
    /\ running' = [running EXCEPT ![actor] = FALSE]
    /\ tasks' = [tasks EXCEPT ![actor] = IF @ = "running" THEN "canceled" ELSE @]
    /\ UNCHANGED <<clockVars, authVars, netVars, dataVars, supVars, askVars,
                   holders, queued, count>>

\* Every actor runs with its task; nothing is queued.
InitLife ==
    /\ holders = [actor \in LifeActors |-> OutsideHolders(actor)]
    /\ tasks = [actor \in LifeActors |-> "running"]
    /\ running = [actor \in LifeActors |-> TRUE]
    /\ queued = [actor \in LifeActors |-> 0]
    /\ count = 0

NextLife ==
    \/ \E actor \in LifeActors : CloneAddress(actor)
    \/ \E actor \in LifeActors : DropAddress(actor)
    \/ \E actor \in LifeActors : TaskNotify(actor)
    \/ \E actor \in LifeActors : Deliver(actor)
    \/ \E actor \in LifeActors : SignalSourceCloses(actor)
    \/ \E actor \in LifeActors : LoopEnds(actor)

----------------------------------------------------------------------------
(* The specifications. *)

InitClock ==
    /\ now = StartTime
    /\ ticks = 0

----------------------------------------------------------------------------
(* The end of an actor of the tree: the loop of context.run(actor) ends when *)
(* every clone of the actor's address is dropped and its mailbox is drained. *)
(* actors/supervisor.rs, actors/data.rs, actors/user.rs, actors/auth.rs.     *)

\* Every address a run can give: those of AppSupervisor::new and three more
\* for each recovery (the Data arm spawns a Cache, a Storage and a Data Manager).
TreeAddresses == 1..(Len(AppSupervisorNew.tree.spawned) + 3 * MaxRecoveries)

\* The addresses an actor keeps in its fields.
TreeHeldBy(f) ==
    CASE f.kind = "Data" -> {f.network_manager, f.cache_actor, f.storage_actor}
      [] f.kind = "User" -> {f.auth_actor}
                            \cup {f.profile_actors[u] : u \in DOMAIN f.profile_actors}
      [] OTHER -> {}

\* The addresses that wait in an actor's mailbox: UpdateNetworkDependency(addr).
TreeInMailbox(b) ==
    IF spawned[b] = "Data"
    THEN {mailboxes[b][i] : i \in 1..Len(mailboxes[b])}
    ELSE {}

\* The running actors that hold a clone of a's address.
LiveHolders(a) ==
    {b \in 1..Len(spawned) :
        /\ b \notin gone
        /\ a \in TreeHeldBy(fields[b]) \cup TreeInMailbox(b)}

\* The supervisor's fields hold a's address.
SupervisorHolds(a) ==
    a \in {supervisor.user_manager, supervisor.data_manager, supervisor.network_manager}

\* A Network Manager whose monitor task is started with its own address.
OwnTaskHolds_NetworkMonitors(kind) == kind \in {"Auth", "Network"}

\* Whether a task in the actor's _owned_tasks holds a clone of the actor's own
\* address: AuthActor::new spawns check_token_expiry(self_addr);
\* NetworkManagerActor::new, DataManagerActor::new, UserManagerActor::new,
\* StorageActor::new spawn nothing and CacheActor::new hands its task
\* Address::default().
OwnTaskHolds(kind) == kind = "Auth"

\* The loop of context.run(actor) ends: no clone of the address is left and
\* the mailbox is drained; the actor is dropped, and its fields with it.
TreeLoopEnds(a) ==
    /\ a \in 1..Len(spawned)
    /\ a \notin gone
    /\ ~SupervisorHolds(a)
    /\ LiveHolders(a) = {}
    /\ ~OwnTaskHolds(spawned[a])
    /\ mailboxes[a] = <<>>
    /\ gone' = gone \cup {a}
    /\ UNCHANGED <<asks, askTrace, askLast>>
    /\ UNCHANGED <<clockVars, authVars, netVars, dataVars, supVars, lifeVars>>

\* A Data Manager of the tree takes the oldest message of its mailbox.
TreeDataUpdate(dm) ==
    /\ dm \in DOMAIN mailboxes
    /\ DataUpdateNetworkDependency(dm)

NextOrphan ==
    \/ \E actor_type \in ActorTypes : HandleActorFailure(actor_type)
    \/ \E dm \in TreeAddresses : TreeDataUpdate(dm)
    \/ \E a \in TreeAddresses : TreeLoopEnds(a)

\* What the fair steps of the tree change.
treeProgress == <<gone, mailboxes>>

vars == <<clockVars, authVars, netVars, dataVars, supVars, askVars, lifeVars>>

\* The state after construction, in a release build.
Init ==
    /\ InitClock
    /\ InitAuth
    /\ InitNet
    /\ InitData({FALSE})
    /\ InitSup
    /\ InitAsk
    /\ InitLife

\* The state after construction, in either build.
InitAnyBuild ==
    /\ InitClock
    /\ InitAuth
    /\ InitNet
    /\ InitData(BOOLEAN)
    /\ InitSup
    /\ InitAsk
    /\ InitLife

NextAuth ==
    \/ \E u \in Usernames, p \in Passwords : Login(u, p)
    \/ \E u \in Usernames, p \in Passwords : LoginRequest(u, p)
    \/ \E tok \in TokenInputs : Logout(tok)
    \/ \E u \in LogoutRequestUsers : LogoutRequest(u)
    \/ \E tok \in TokenInputs : VerifyToken(tok)
    \/ CheckExpiredTokens
    \/ \E d \in AuthTickSteps : Tick(d)

SpecAuth == Init /\ [][NextAuth]_vars

SpecNet == Init /\ [][NextNet]_vars

SpecNetBurst == Init /\ [][NextNetBurst]_vars

SpecData == InitAnyBuild /\ [][NextData]_vars

SpecDataLoss == InitAnyBuild /\ [][NextDataLoss]_vars

SpecFetch == InitAnyBuild /\ [][NextFetch]_vars

SpecCleanup == InitAnyBuild /\ [][NextCleanup]_vars

SpecSup == Init /\ [][NextSup]_vars

SpecUser == Init /\ [][NextUser]_vars

SpecSupervisor == Init /\ [][NextSupervisor]_vars

\* The tokio runtime polls every spawned task: a Data Manager with a message
\* takes it, a loop whose channel is closed and drained ends.
SpecOrphan ==
    /\ Init
    /\ [][NextOrphan]_vars
    /\ \A dm \in TreeAddresses : WF_treeProgress(TreeDataUpdate(dm))
    /\ \A a \in TreeAddresses : WF_treeProgress(TreeLoopEnds(a))

\* Requests through the tree; a handler that can take a step takes it (the
\* runtime polls every task that is ready).
SpecAsk == Init /\ [][NextAsk]_vars /\ WF_askProgress(AskStep)

\* The lives of the actors that own a task. A queued notification is
\* delivered, a loop whose mailbox is closed ends, and the interval of
\* check_token_expiry keeps ticking; Dart's signals and the outside holders
\* are under no obligation.
SpecLife ==
    /\ Init
    /\ [][NextLife]_vars
    /\ \A actor \in LifeActors : WF_lifeVars(Deliver(actor)) /\ WF_lifeVars(LoopEnds(actor))
    /\ WF_lifeVars(TaskNotify("Auth"))

\* Every subsystem together.
Next ==
    \/ NextAuth \/ NextNet \/ NextData \/ NextDataLoss \/ NextFetch \/ NextCleanup \/ NextSup
    \/ NextAsk \/ NextSupervisor \/ NextOrphan \/ NextUser \/ NextLife

Spec == Init /\ [][Next]_vars

----------------------------------------------------------------------------
(* Claims about the Auth actor, checked under SpecAuth. *)

\* C1: VerifyToken returns Ok(user_id) exactly when the token is a key of
\* active_sessions and now < expires_at of that session, and then the user id
\* is the session's; in every other case it returns an error.
C1_VerifyIffLive ==
    authLast.op = "VerifyToken" =>
        LET tok == authLast.arg
            live == /\ tok \in DOMAIN authLast.before
                    /\ authLast.time < authLast.before[tok].expires_at
        IN  /\ authLast.result.ok <=> live
            /\ authLast.result.ok => authLast.result.val = authLast.before[tok].user_id

\* A verification of a held token in the very second it expires was refused.
C1_Witness ==
    /\ authLast.op = "VerifyToken"
    /\ authLast.arg \in DOMAIN authLast.before
    /\ authLast.time = authLast.before[authLast.arg].expires_at
    /\ ~authLast.result.ok

\* C2, as claimed: once now >= expires_at holds for a session, the next
\* CheckExpiredTokens sweep removes it from active_sessions, and every later
\* VerifyToken for its token returns an error.
C2_SweepRemovesExpired ==
    /\ authLast.op = "CheckExpiredTokens" =>
           \A tok \in DOMAIN authLast.before :
               authLast.time >= authLast.before[tok].expires_at
                   => tok \notin DOMAIN active_sessions
    /\ authLast.op = "VerifyToken" =>
           \A tok \in DOMAIN authLast.before :
               (tok = authLast.arg /\ authLast.time >= authLast.before[tok].expires_at)
                   => ~authLast.result.ok

\* C2, amended: once now > expires_at holds for a session, the next
\* CheckExpiredTokens sweep removes it from active_sessions (a sweep handled in
\* the second now = expires_at keeps it), and every VerifyToken for its token
\* handled at now >= expires_at returns an error, swept or not.
C2_SweepRemovesPassed ==
    /\ authLast.op = "CheckExpiredTokens" =>
           \A tok \in DOMAIN authLast.before :
               authLast.time > authLast.before[tok].expires_at
                   => tok \notin DOMAIN active_sessions
    /\ authLast.op = "VerifyToken" =>
           \A tok \in DOMAIN authLast.before \cup DOMAIN active_sessions :
               (/\ tok = authLast.arg
                /\ tok \in DOMAIN authLast.before
                /\ authLast.time >= authLast.before[tok].expires_at)
                   => ~authLast.result.ok

\* A sweep evicted a session whose expiry had passed and kept a live one.
C2_Witness ==
    /\ authLast.op = "CheckExpiredTokens"
    /\ \E tok \in DOMAIN authLast.before :
           /\ authLast.time > authLast.before[tok].expires_at
           /\ tok \notin DOMAIN active_sessions
    /\ active_sessions # <<>>

\* C3: a Login with ("demo", "password") returns Ok with expires_at = now + 3600
\* and leaves a session keyed by exactly the returned token whose user_id and
\* expires_at are the returned ones.
C3_LoginCreatesSession ==
    (authLast.op = "Login" /\ authLast.arg = <<"demo", "password">>) =>
        /\ authLast.result.ok
        /\ authLast.result.val.expires_at = authLast.time + 3600
        /\ authLast.result.val.token \in DOMAIN active_sessions
        /\ LET s == active_sessions[authLast.result.val.token] IN
               /\ s.user_id = authLast.result.val.user_id
               /\ s.expires_at = authLast.result.val.expires_at
               /\ s.token = authLast.result.val.token

\* A valid login ran while an earlier session was still held.
C3_Witness ==
    /\ authLast.op = "Login"
    /\ authLast.arg = <<"demo", "password">>
    /\ authLast.before # <<>>
    /\ authLast.result.ok
    /\ Cardinality(DOMAIN active_sessions) = 2

\* C4: a Login with any other username/password pair returns an error, leaves
\* active_sessions unchanged and emits no AuthStateChanged.
C4_BadLoginNoEffect ==
    (authLast.op = "Login" /\ authLast.arg # <<"demo", "password">>) =>
        /\ ~authLast.result.ok
        /\ active_sessions = authLast.before
        /\ \A i \in 1..Len(authLast.signals) :
               authLast.signals[i].signal # "AuthStateChanged"

\* The right username with a wrong password was refused while a session was held.
C4_Witness ==
    /\ authLast.op = "Login"
    /\ authLast.arg = <<"demo", "wrong">>
    /\ authLast.before # <<>>
    /\ ~authLast.result.ok

----------------------------------------------------------------------------
(* Claims about the Network Manager. *)

\* C5: when max_connections + 1 requests for one domain are outstanding at
\* once, the (max+1)-th is rejected with the too-many-connections error before
\* any transport attempt is made for it, and once every request has completed
\* the domain's counter is 0. Checked under SpecNetBurst.
C5_BurstRejectsLast ==
    /\ ~netRunning.over
    /\ netLast.over => netLast.outcome = "rejected"
    /\ (netMailbox = <<>> /\ netRunning = NoRequest) =>
           \A d \in DOMAIN connection_pool : connection_pool[d] = 0

\* C6: for every request that passes the admission check the domain's counter
\* is decremented exactly once before the handler returns, on every exit path:
\* when the handler has returned, the counter is what it was on entry.
\* Checked under SpecNet.
C6_DecrementOnEveryExit ==
    netLast.outcome \in TransportOutcomes \cup {"build_failed"} =>
        PoolCount(connection_pool, netLast.domain) = netLast.before

----------------------------------------------------------------------------
(* Claims about the Data Manager, checked under SpecData. *)

\* C7: for every key, data and ttl, a StoreData followed immediately by a
\* FetchData of the same key returns exactly the stored data, answered by the
\* Cache without Storage being asked.
C7_StoreThenFetch ==
    (dataLast.op = "FetchData" /\ dataLast.follows.key = dataLast.key) =>
        /\ dataLast.result = Ok(dataLast.follows.data)
        /\ dataLast.calls = <<"cache.FetchData">>

\* C8, as claimed: an entry cached at time t with ttl = Some(n) is not served
\* from the cache by a FetchData handled at now >= t + n (its expires_at).
C8_ExpiredNotServed ==
    (/\ dataLast.op = "FetchData"
     /\ dataLast.entry # None
     /\ dataLast.entry[1].expires_at # None
     /\ ~U64Less(dataLast.time, dataLast.entry[1].expires_at[1])) =>
        dataLast.calls # <<"cache.FetchData">>

\* C8, amended: an entry cached at time t with ttl = Some(n) is not served from
\* the cache by a FetchData handled at now > t + n: the Cache removes the entry
\* and the Data Manager asks Storage (in the second now = t + n the Cache still
\* serves it).
C8_PassedNotServed ==
    (/\ dataLast.op = "FetchData"
     /\ dataLast.entry # None
     /\ dataLast.entry[1].expires_at # None
     /\ U64Less(dataLast.entry[1].expires_at[1], dataLast.time)) =>
        /\ dataLast.calls # <<"cache.FetchData">>
        /\ Len(dataLast.calls) >= 2
        /\ dataLast.calls[2] = "storage.FetchData"
        /\ dataLast.key \notin DOMAIN cache

\* In a build with overflow checks (every expiry there is a sum that stayed in
\* u64) an entry was read a second after its expiry and not served.
C8_Witness ==
    /\ overflow_checks
    /\ cacheAlive
    /\ dataLast.op = "FetchData"
    /\ dataLast.entry # None
    /\ dataLast.entry[1].expires_at # None
    /\ dataLast.time = dataLast.entry[1].expires_at[1] + 1
    /\ dataLast.result = Err("Data not found")
    /\ dataLast.cacheChanged

\* C9: a FetchData for a key that neither the Cache nor the Storage holds
\* returns the not-found error and leaves the cache as it was.
C9_MissNotFound ==
    (dataLast.op = "FetchData" /\ dataLast.entry = None) =>
        /\ dataLast.result = Err("Data not found")
        /\ ~dataLast.cacheChanged

\* A key was missed while the cache held another key.
C9_Witness ==
    /\ dataLast.op = "FetchData"
    /\ dataLast.entry = None
    /\ cacheAlive
    /\ cache # <<>>
    /\ dataLast.result = Err("Data not found")
    /\ dataLast.calls = <<"cache.FetchData", "storage.FetchData">>

----------------------------------------------------------------------------
(* Claims about the supervisor, checked under SpecSup. *)

\* C10: after the recovery was invoked for the Network kind twice in
\* succession and both UpdateNetworkDependency messages were processed, the
\* Data Manager holds one Network address: that of the Network actor spawned
\* last, which is the supervisor's own network_manager.
C10_NetworkTwiceSettles ==
    LET n == Len(recovered) IN
    (/\ n >= 2
     /\ recovered[n] = "Network"
     /\ recovered[n - 1] = "Network"
     /\ mailboxes[supervisor.data_manager] = <<>>) =>
        /\ fields[supervisor.data_manager].network_manager = Latest("Network")
        /\ supervisor.network_manager = Latest("Network")

\* Two Network recoveries in a row have settled on the third Network actor.
C10_Witness ==
    /\ recovered = <<"Network", "Network">>
    /\ mailboxes[supervisor.data_manager] = <<>>
    /\ Cardinality({a \in 1..Len(spawned) : spawned[a] = "Network"}) = 3
    /\ fields[supervisor.data_manager].network_manager = 8

\* The kinds of the supervisor's own children, in the order they were spawned.
ChildKinds == SelectSeq(spawned, LAMBDA kind : kind \in ActorTypes)

\* C11: AppSupervisor::new spawns its children in the order Network, Data,
\* Auth, User, and right after construction the Data Manager holds the address
\* of the Network actor and the User Manager that of the Auth actor, each
\* spawned before its dependent.
C11_NewWiresInOrder ==
    /\ Len(ChildKinds) >= 4
    /\ SubSeq(ChildKinds, 1, 4) = <<"Network", "Data", "Auth", "User">>
    /\ recovered = <<>> =>
           LET dm == supervisor.data_manager
               um == supervisor.user_manager
               net == fields[dm].network_manager
               auth == fields[um].auth_actor
           IN  /\ net \in 1..(dm - 1)
               /\ spawned[net] = "Network"
               /\ net = supervisor.network_manager
               /\ auth \in 1..(um - 1)
               /\ spawned[auth] = "Auth"
               /\ auth = Latest("Auth")

\* The tree right after construction: six actors, no recovery yet.
C11_Witness ==
    /\ recovered = <<>>
    /\ ChildKinds = <<"Network", "Data", "Auth", "User">>
    /\ spawned[fields[supervisor.user_manager].auth_actor] = "Auth"
    /\ spawned[fields[supervisor.data_manager].network_manager] = "Network"

\* C12: after any sequence of recoveries that includes a replacement of the
\* User kind, the live User Manager holds the address of the running Auth actor.
C12_UserKeepsAuth ==
    (\E i \in 1..Len(recovered) : recovered[i] = "User") =>
        fields[supervisor.user_manager].auth_actor = Latest("Auth")

\* The addresses of a kind that the supervisor or the Data Manager it asks holds.
HeldAddresses(kind) ==
    LET dm == supervisor.data_manager IN
    CASE kind = "Network" -> {supervisor.network_manager, fields[dm].network_manager}
      [] kind = "Data" -> {supervisor.data_manager}
      [] kind = "User" -> {supervisor.user_manager}
      [] kind = "Auth" -> {}

\* C13: once a recovery has settled (the Data Manager has processed every
\* dependency update), the supervisor and, for the Network kind, the Data
\* Manager hold the address of the instance spawned last for every kind that
\* was replaced, and none of them holds an older address of that kind.
C13_RecoverySettles ==
    mailboxes[supervisor.data_manager] = <<>> =>
        \A kind \in {"Network", "Data", "User"} :
            (\E i \in 1..Len(recovered) : recovered[i] = kind) =>
                HeldAddresses(kind) = {Latest(kind)}

\* A Network, a Data and again a Network recovery have settled.
C13_Witness ==
    /\ recovered = <<"Network", "Data", "Network">>
    /\ mailboxes[supervisor.data_manager] = <<>>
    /\ HeldAddresses("Network") = {Latest("Network")}
    /\ supervisor.data_manager = Latest("Data")
    /\ Latest("Network") > Latest("Data")

\* C14: the recovery for the Auth kind spawns no actor and leaves every address
\* held by the supervisor and by its children unchanged.
C14_AuthNeverReplaced ==
    [][recovered' = Append(recovered, "Auth") =>
           /\ spawned' = spawned
           /\ fields' = fields
           /\ supervisor' = supervisor]_vars

\* The Auth recovery has run after a User recovery, and the one Auth actor of
\* the tree is still the one AppSupervisor::new spawned.
C14_Witness ==
    /\ Len(recovered) >= 2
    /\ recovered[Len(recovered)] = "Auth"
    /\ recovered[Len(recovered) - 1] = "User"
    /\ Cardinality({a \in 1..Len(spawned) : spawned[a] = "Auth"}) = 1

----------------------------------------------------------------------------
(* More claims about the Auth actor, checked under SpecAuth. *)

\* C18: Logout(token) for a held token removes exactly that session, emits
\* exactly one AuthStateChanged{is_authenticated: false} for its user and
\* returns Ok; for a token not held it returns an error, emits nothing and
\* leaves active_sessions unchanged.
C18_LogoutRemovesOne ==
    authLast.op = "Logout" =>
        IF authLast.arg \in DOMAIN authLast.before
        THEN /\ DOMAIN active_sessions = DOMAIN authLast.before \ {authLast.arg}
             /\ \A k \in DOMAIN active_sessions : active_sessions[k] = authLast.before[k]
             /\ authLast.signals =
                    <<AuthStateChanged(FALSE, authLast.before[authLast.arg].user_id)>>
             /\ authLast.result = Ok("unit")
        ELSE /\ ~authLast.result.ok
             /\ authLast.signals = <<>>
             /\ active_sessions = authLast.before

\* One of two held sessions was logged out and the other is still held.
C18_Witness ==
    /\ authLast.op = "Logout"
    /\ authLast.arg \in DOMAIN authLast.before
    /\ Cardinality(DOMAIN authLast.before) = 2
    /\ Cardinality(DOMAIN active_sessions) = 1
    /\ authLast.result.ok

\* The sessions of a user among the tokens of a session map.
SessionsOf(sessions, tokens, user_id) ==
    {k \in tokens : sessions[k].user_id = user_id}

\* The signals of a sequence that tell a user is no longer authenticated.
LoggedOutSignals(signals, user_id) ==
    {i \in 1..Len(signals) : signals[i] = AuthStateChanged(FALSE, user_id)}

\* C19: a CheckExpiredTokens sweep emits exactly one
\* AuthStateChanged{is_authenticated: false} per session it evicts and no other
\* signal, it keeps every session whose expiry has not passed, and no message
\* of the Auth actor other than a request (Login, Logout, or Dart's
\* LoginRequest and LogoutRequest) and the sweep changes active_sessions.
C19_SweepSignalsPerEviction ==
    /\ [](authLast.op = "CheckExpiredTokens" =>
            LET evicted == DOMAIN authLast.before \ DOMAIN active_sessions
                users == {authLast.before[k].user_id : k \in DOMAIN authLast.before}
            IN  /\ Len(authLast.signals) = Cardinality(evicted)
                /\ \A u \in users :
                       Cardinality(LoggedOutSignals(authLast.signals, u))
                           = Cardinality(SessionsOf(authLast.before, evicted, u))
                /\ \A k \in DOMAIN authLast.before :
                       authLast.before[k].expires_at >= authLast.time
                           => /\ k \in DOMAIN active_sessions
                              /\ active_sessions[k] = authLast.before[k])
    /\ [][active_sessions' # active_sessions =>
             authLast'.op \in {"Login", "Logout", "LoginRequest", "LogoutRequest",
                              "CheckExpiredTokens"}]_vars

\* A sweep evicted two sessions, told so twice, and kept a third.
C19_Witness ==
    /\ authLast.op = "CheckExpiredTokens"
    /\ Cardinality(DOMAIN authLast.before \ DOMAIN active_sessions) = 2
    /\ Len(authLast.signals) = 2
    /\ Cardinality(DOMAIN active_sessions) = 1

----------------------------------------------------------------------------
(* Claims about the Data Manager while its children may disappear, checked  *)
(* under SpecDataLoss.                                                      *)

\* C20: StoreData sends the write to Storage before anything to Cache; it
\* returns Ok whenever the Storage write succeeded, whatever the outcome of the
\* Cache write, and when the Storage write fails it returns the error without
\* writing to Cache.
C20_StorageFirstCacheBestEffort ==
    dataLast.op = "StoreData" =>
        /\ dataLast.calls[1] = "storage.StoreData"
        /\ dataLast.storageWrite = "ok" =>
               /\ dataLast.result.ok
               /\ dataLast.calls = <<"storage.StoreData", "cache.CacheData">>
        /\ dataLast.storageWrite # "ok" =>
               /\ ~dataLast.result.ok
               /\ dataLast.calls = <<"storage.StoreData">>
               /\ ~dataLast.cacheChanged

\* A StoreData returned Ok although the Cache was gone.
C20_Witness ==
    /\ dataLast.op = "StoreData"
    /\ dataLast.storageWrite = "ok"
    /\ dataLast.cacheWrite = "gone"
    /\ dataLast.result.ok
    /\ ~cacheAlive

----------------------------------------------------------------------------
(* Claims about the mailbox of an actor, checked on the Network Manager     *)
(* under SpecNet.                                                           *)

----------------------------------------------------------------------------
(* Claims about requests through the tree, checked under SpecAsk.           *)

----------------------------------------------------------------------------
(* Claims about the life of an actor, checked under SpecLife.               *)

\* C17: once every address of an actor held outside that actor has been
\* dropped, the actor's loop eventually ends and the task it owns no longer
\* runs; this for the Auth actor, the Cache actor and the CountingActor.
C17_UnheldActorTerminates ==
    \A actor \in LifeActors :
        (holders[actor] = 0) ~> (~running[actor] /\ tasks[actor] # "running")

----------------------------------------------------------------------------
(* Claims about what Storage keeps, checked under SpecData.                 *)

\* C21: the store is durable in Storage: right after a StoreData(key, data)
\* that returned Ok, a FetchData(key) handled by the Storage actor returns
\* data; and a Data Manager fetch of a key whose cache entry (written by such
\* a store) has expired still returns that data.
C21_StoreDurable ==
    /\ (dataStored # NoStore) =>
           StorageFetchData(dataStored.key) = Ok(dataStored.data)
    /\ (/\ dataLast.op = "FetchData"
        /\ dataLast.entry # None
        /\ dataLast.entry[1].expires_at # None
        /\ U64Less(dataLast.entry[1].expires_at[1], dataLast.time)) =>
           dataLast.result = Ok(dataLast.entry[1].data)

----------------------------------------------------------------------------
(* Claims about the Data Manager's fetch, checked under SpecFetch.          *)

\* Whether the Cache held, for the key of the last fetch, an entry it serves
\* at the time of the fetch.
CacheHadData ==
    /\ dataLast.entry # None
    /\ ~(/\ dataLast.entry[1].expires_at # None
         /\ U64Less(dataLast.entry[1].expires_at[1], dataLast.time))

\* C22: FetchData asks the Cache first and asks Storage exactly when the
\* Cache did not return data; when Storage returns data, the fetch returns it
\* after a CacheData with the same key, the same data and TTL 3600 was sent to
\* the Cache and handled by it.
C22_CacheFirstThenRefill ==
    dataLast.op = "FetchData" =>
        /\ dataLast.calls[1] = "cache.FetchData"
        /\ CacheHadData <=> dataLast.calls = <<"cache.FetchData">>
        /\ ~CacheHadData => dataLast.calls[2] = "storage.FetchData"
        /\ (~CacheHadData /\ dataLast.result.ok) =>
               /\ dataLast.calls = <<"cache.FetchData", "storage.FetchData", "cache.CacheData">>
               /\ dataLast.refill = Some([key |-> dataLast.key,
                                          data |-> dataLast.result.val,
                                          ttl |-> Some(3600)])
               /\ dataLast.key \in DOMAIN cache
               /\ cache[dataLast.key] = [data |-> dataLast.result.val,
                                         expires_at |-> Some(dataLast.time + 3600)]
        /\ (~CacheHadData /\ ~dataLast.result.ok) => dataLast.refill = None

\* A fetch of a key whose entry had expired was answered by Storage, and the
\* Cache holds the refilled entry.
C22_Witness ==
    /\ dataLast.op = "FetchData"
    /\ dataLast.entry # None
    /\ ~CacheHadData
    /\ dataLast.result = Ok(<<7>>)
    /\ dataLast.calls = <<"cache.FetchData", "storage.FetchData", "cache.CacheData">>
    /\ cache[dataLast.key].expires_at = Some(now + 3600)

----------------------------------------------------------------------------
(* Claims about the Cache actor's reads, checked under SpecData.            *)

\* Whether the entry the Cache holds for key has an expiry that has passed.
Expired(c, key, t) ==
    /\ key \in DOMAIN c
    /\ c[key].expires_at # None
    /\ U64Less(c[key].expires_at[1], t)

\* C23: a FetchData handled by the Cache for a key whose entry has expired
\* removes that entry (and no other) and returns an error; for a key whose
\* entry has no expiry or has not expired it returns the stored data and
\* leaves the cache unchanged. Stated of the handler on every reachable cache
\* and clock, and of the Data Manager fetch that ran it last.
C23_LazyPurgeOnRead ==
    /\ \A key \in DOMAIN cache :
           LET r == CacheFetchData(cache, key, now)
           IN  IF Expired(cache, key, now)
               THEN /\ ~r.result.ok
                    /\ DOMAIN r.cache = DOMAIN cache \ {key}
                    /\ \A k \in DOMAIN r.cache : r.cache[k] = cache[k]
               ELSE /\ r.result = Ok(cache[key].data)
                    /\ r.cache = cache
    /\ (dataLast.op = "FetchData" /\ dataLast.entry # None) =>
           IF /\ dataLast.entry[1].expires_at # None
              /\ U64Less(dataLast.entry[1].expires_at[1], dataLast.time)
           THEN /\ dataLast.key \notin DOMAIN cache
                /\ dataLast.cacheChanged
                /\ dataLast.calls # <<"cache.FetchData">>
           ELSE /\ dataLast.result = Ok(dataLast.entry[1].data)
                /\ ~dataLast.cacheChanged
                /\ dataLast.key \in DOMAIN cache
                /\ cache[dataLast.key] = dataLast.entry[1]

\* An expired entry was read and removed while the entry of the other key,
\* which has no expiry, stayed.
C23_Witness ==
    /\ dataLast.op = "FetchData"
    /\ dataLast.entry # None
    /\ dataLast.entry[1].expires_at # None
    /\ U64Less(dataLast.entry[1].expires_at[1], dataLast.time)
    /\ dataLast.key \notin DOMAIN cache
    /\ \E k \in DOMAIN cache : cache[k].expires_at = None

----------------------------------------------------------------------------
(* Claims about the Network Manager's responses, checked under SpecNet.     *)

\* C24: for an admitted request, a failure of the transport (send() failing:
\* no connection, or the timeout elapsing) and a failure to read the body are
\* returned as Ok(NetworkResponse) with error = Some(..), never as Err; and
\* is_success is true exactly of the response whose status is 2xx and whose
\* error is None.
C24_FailuresAreResponses ==
    netLast.outcome \in TransportOutcomes =>
        /\ netLast.result.ok
        /\ netLast.outcome \in {"send_failed", "body_read_failed"} =>
               netLast.result.val.error # "None"
        /\ netLast.outcome \in {"response_2xx", "response_5xx"} =>
               netLast.result.val.error = "None"
        /\ is_success(netLast.result.val) <=> netLast.outcome = "response_2xx"

\* A body that could not be read after a 200 came back as a response with an
\* error, which is not a success.
C24_Witness ==
    /\ netLast.outcome = "body_read_failed"
    /\ netLast.result.ok
    /\ netLast.result.val.status = 200
    /\ netLast.result.val.error # "None"
    /\ ~is_success(netLast.result.val)

----------------------------------------------------------------------------
(* Claims about the User Manager's profile actors, checked under SpecUser.  *)

\* The UserProfileActors spawned for a user id.
ProfileActorsOf(user_id) ==
    {a \in DOMAIN fields : fields[a].kind = "Profile" /\ fields[a].user_id = user_id}

\* C25: after any sequence of Login, GetProfile and UpdateProfile on a User
\* Manager at most one UserProfileActor has been spawned per user id, and
\* profile_actors holds its address; an address once stored for a user id is
\* the one every later access uses; and a GetProfile handled by a profile
\* actor with no stored profile returns (and stores) the default profile of
\* its user id.
C25_OneProfileActorPerUser ==
    /\ [](\A u \in UserIds \cup {"user_1"} :
            /\ Cardinality(ProfileActorsOf(u)) <= 1
            /\ LET stored == fields[supervisor.user_manager].profile_actors
               IN  IF u \in DOMAIN stored
                   THEN ProfileActorsOf(u) = {stored[u]}
                   ELSE ProfileActorsOf(u) = {})
    /\ [][\A u \in DOMAIN fields[supervisor.user_manager].profile_actors :
            /\ u \in DOMAIN fields'[supervisor.user_manager].profile_actors
            /\ fields'[supervisor.user_manager].profile_actors[u] =
                   fields[supervisor.user_manager].profile_actors[u]]_vars
    /\ [][(/\ asks # <<>>
           /\ TopFrame.kind = "ProfileGetProfile"
           /\ fields[TopFrame.addr].profile = None
           /\ askProgress' # askProgress) =>
              /\ fields'[TopFrame.addr].profile =
                     Some(DefaultProfile(fields[TopFrame.addr].user_id))
              /\ asks'[Len(asks')].answer =
                     Some(Ok(Ok(DefaultProfile(TopFrame.args[1]))))]_vars

\* Both users have a profile actor, user_2's spawned first; user_1 was
\* written and then read, user_2 read only: each got its own profile back.
C25_Witness ==
    /\ asks = <<>>
    /\ askLast.kind = "UserGetProfile"
    /\ askLast.args = <<"user_1">>
    /\ askLast.result = Ok(Ok(WrittenProfile("user_1")))
    /\ LET stored == fields[supervisor.user_manager].profile_actors
       IN  /\ DOMAIN stored = {"user_1", "user_2"}
           /\ stored["user_2"] < stored["user_1"]
           /\ fields[stored["user_2"]].profile = Some(DefaultProfile("user_2"))
    /\ active_sessions # <<>>

----------------------------------------------------------------------------
(* Claims about the Auth actor's Dart-facing handlers, checked under        *)
(* SpecAuth.                                                                *)

IsLoginResponse(s) == s.signal = "LoginResponse"

\* Whether the last handler was a LoginRequest whose credentials were wrong.
FailedLoginRequest ==
    /\ authLast.op = "LoginRequest"
    /\ authLast.arg # <<"demo", "password">>

\* C26: every LoginRequest the Auth actor handles sends exactly one
\* LoginResponse: success with the user id and the token of the login and no
\* error for valid credentials, failure with neither and an error text
\* otherwise. A failed login leaves the sessions as they were, and the actor
\* handles what comes next: a LoginRequest with valid credentials right after
\* a failed one succeeds.
C26_OneLoginResponse ==
    /\ [](authLast.op = "LoginRequest" =>
            LET rs == SelectSeq(authLast.signals, IsLoginResponse)
            IN  /\ Len(rs) = 1
                /\ IF authLast.arg = <<"demo", "password">>
                   THEN rs[1] = [signal |-> "LoginResponse", success |-> TRUE,
                                 user_id |-> Some("user_1"),
                                 token |-> Some(generate_token("user_1", authLast.time)),
                                 error |-> None]
                   ELSE /\ ~rs[1].success
                        /\ rs[1].user_id = None
                        /\ rs[1].token = None
                        /\ rs[1].error # None
                        /\ active_sessions = authLast.before)
    /\ [][(/\ FailedLoginRequest
           /\ authLast'.op = "LoginRequest"
           /\ authLast'.arg = <<"demo", "password">>) =>
              /\ SelectSeq(authLast'.signals, IsLoginResponse)[1].success
              /\ generate_token("user_1", now) \in DOMAIN active_sessions']_vars

\* A LoginRequest with a wrong password was refused while an earlier login's
\* session is held.
C26_Witness ==
    /\ authLast.op = "LoginRequest"
    /\ authLast.arg = <<"demo", "wrong">>
    /\ Len(authLast.signals) = 1
    /\ ~authLast.signals[1].success
    /\ authLast.signals[1].error = Some("Invalid username or password")
    /\ active_sessions # <<>>

----------------------------------------------------------------------------
(* Claims about the construction of the tree, checked under SpecSup.        *)

\* C27: the ActorsCreatedSignal reports an actor_count equal to the number of
\* names it lists and equal to the number of actors spawned when the tree is
\* built: the supervisor and every actor AppSupervisor::new and its children's
\* constructors spawn (before any recovery, spawned holds exactly these).
C27_ActorCountIsSpawned ==
    recovered = <<>> =>
        /\ ActorsCreatedSignal.actor_count = Len(ActorsCreatedSignal.initialized_actors)
        /\ ActorsCreatedSignal.actor_count = 1 + Len(spawned)

----------------------------------------------------------------------------
(* Claims about the Network Manager's counters, checked under SpecNet.      *)

\* C28: a NetworkRequest rejected by the admission check leaves the counter
\* of its domain at its value before the request and the counter of every
\* other domain unchanged.
C28_RejectionKeepsCounters ==
    /\ [](netLast.outcome = "rejected" =>
            PoolCount(connection_pool, netLast.domain) = netLast.before)
    /\ [][(netLast'.outcome = "rejected" /\ netMailbox' # netMailbox) =>
             \A d \in DOMAIN connection_pool \cup DOMAIN connection_pool' :
                 PoolCount(connection_pool', d) = PoolCount(connection_pool, d)]_vars

\* A request to one domain was rejected while the other domain's counter is
\* above zero.
C28_Witness ==
    /\ netLast.outcome = "rejected"
    /\ netRunning = NoRequest
    /\ PoolCount(connection_pool, netLast.domain) = netLast.before
    /\ \E d \in DOMAIN connection_pool : d # netLast.domain /\ connection_pool[d] > 0

\* C29: after any sequence of NetworkRequests with any mix of outcomes,
\* whenever no handler of the Network Manager is running every domain counter
\* of connection_pool is 0.
C29_IdleCountersZero ==
    netRunning = NoRequest =>
        \A d \in DOMAIN connection_pool : connection_pool[d] = 0

----------------------------------------------------------------------------
(* Claims about the supervisor's ProcessLogin, checked under SpecAsk.       *)

SentByProcessLogin(entry) == entry.from = "ProcessLogin"

\* The messages the handler of the ProcessLogin completed last sent itself.
OwnSends ==
    LET own == SelectSeq(askLast.trace, SentByProcessLogin)
    IN  [i \in 1..Len(own) |-> own[i].to]

\* C30: ProcessLogin sends Login to the User Manager, then GetProfile to the
\* User Manager, then FetchRecentData to the Data Manager; the first step that
\* fails ends the handler with that step's error and nothing more is sent; on
\* success the session carries the token of the login and the profile of the
\* logged-in user id.
C30_ProcessLoginInOrder ==
    /\ [](askLast.kind = "ProcessLogin" =>
            /\ Len(OwnSends) \in 1..3
            /\ OwnSends = SubSeq(<<"UserLogin", "UserGetProfile", "FetchRecentData">>,
                                 1, Len(OwnSends))
            /\ Len(OwnSends) < 3 => Failed(askLast.result)
            /\ \A i \in 1..Len(askLast.trace) :
                   (SentByProcessLogin(askLast.trace[i]) /\ ~askLast.trace[i].delivered)
                       => /\ i = Len(askLast.trace)
                          /\ Failed(askLast.result)
            /\ ~Failed(askLast.result) =>
                   LET session == askLast.result.val.val
                       asked == SelectSeq(askLast.trace, SentByProcessLogin)[1].target
                       stored == fields[asked].profile_actors
                   IN  /\ Len(OwnSends) = 3
                       /\ \E t \in StartTime..now : session.token = generate_token("user_1", t)
                       /\ session.token \in DOMAIN active_sessions
                       /\ active_sessions[session.token].user_id = "user_1"
                       /\ session.profile.user_id = "user_1"
                       /\ "user_1" \in DOMAIN stored
                       /\ fields[stored["user_1"]].profile = Some(session.profile)
                       /\ session.recent_data.user_id = "user_1")
    /\ [][(/\ asks # <<>>
           /\ TopFrame.kind = "ProcessLogin"
           /\ TopFrame.answer # None
           /\ Failed(TopFrame.answer[1])
           /\ askProgress' # askProgress) =>
              /\ asks' = <<>>
              /\ askTrace' = askTrace
              /\ askLast'.kind = "ProcessLogin"
              /\ askLast'.result = Ok(ErrorOf(TopFrame.answer[1]))]_vars

\* A ProcessLogin went through its three steps and returned a session with the
\* profile its GetProfile created.
C30_Witness ==
    /\ asks = <<>>
    /\ askLast.kind = "ProcessLogin"
    /\ ~Failed(askLast.result)
    /\ OwnSends = <<"UserLogin", "UserGetProfile", "FetchRecentData">>
    /\ Len(askLast.trace) = 5
    /\ askLast.result.val.val.profile = DefaultProfile("user_1")

----------------------------------------------------------------------------
(* Claims about the signals and the sessions of the Auth actor's Dart-facing *)
(* handlers, checked under SpecAuth.                                         *)

\* C31: the signals of one Auth handler are sent in the order the handler
\* runs: a successful LoginRequest sends AuthStateChanged{is_authenticated:
\* true} and then LoginResponse{success: true}, a successful LogoutRequest
\* sends AuthStateChanged{is_authenticated: false} and then
\* LogoutResponse{success: true}, and nothing else.
C31_StateChangeBeforeResponse ==
    /\ (authLast.op = "LoginRequest" /\ CredentialsValid(authLast.arg[1], authLast.arg[2])) =>
           /\ Len(authLast.signals) = 2
           /\ authLast.signals[1] = AuthStateChanged(TRUE, "user_1")
           /\ authLast.signals[2].signal = "LoginResponse"
           /\ authLast.signals[2].success
    /\ (authLast.op = "LogoutRequest" /\ SessionsFound(authLast.before, authLast.arg) # {}) =>
           /\ Len(authLast.signals) = 2
           /\ authLast.signals[1] = AuthStateChanged(FALSE, authLast.arg)
           /\ authLast.signals[2] = LogoutResponse(TRUE)

\* A LogoutRequest ended one of two sessions and sent its two signals.
C31_Witness ==
    /\ authLast.op = "LogoutRequest"
    /\ Cardinality(DOMAIN authLast.before) = 2
    /\ Cardinality(DOMAIN active_sessions) = 1
    /\ Len(authLast.signals) = 2

\* C32: VerifyToken never changes active_sessions, whatever it answers: a
\* session it finds expired is still in the map when it returns, and only a
\* Logout, a LogoutRequest or a sweep takes a session out of the map.
C32_VerifyKeepsSessions ==
    /\ [](authLast.op = "VerifyToken" =>
            /\ active_sessions = authLast.before
            /\ authLast.result = Err("Token expired") =>
                   authLast.arg \in DOMAIN active_sessions)
    /\ [][(DOMAIN active_sessions \ DOMAIN active_sessions' # {}) =>
              authLast'.op \in {"Logout", "LogoutRequest", "CheckExpiredTokens"}]_vars

\* A VerifyToken answered "Token expired" and the session is still held.
C32_Witness ==
    /\ authLast.op = "VerifyToken"
    /\ authLast.result = Err("Token expired")
    /\ authLast.arg \in DOMAIN active_sessions

\* C33: a successful Login leaves every session that was held in place and adds
\* one of its own: the map after it has one session more than the map before
\* it, under a token that was not held.
C33_LoginAddsSession ==
    (authLast.op \in {"Login", "LoginRequest"}
        /\ CredentialsValid(authLast.arg[1], authLast.arg[2])) =>
        /\ \A k \in DOMAIN authLast.before :
               k \in DOMAIN active_sessions /\ active_sessions[k] = authLast.before[k]
        /\ generate_token("user_1", authLast.time) \notin DOMAIN authLast.before
        /\ Cardinality(DOMAIN active_sessions) = Cardinality(DOMAIN authLast.before) + 1

\* C34: a LogoutRequest for a user with a session removes exactly one session
\* of that user, keeps every other session as it was and sends
\* LogoutResponse{success: true}; for a user with no session it sends
\* LogoutResponse{success: false} alone and keeps active_sessions as it was.
C34_LogoutRequestRemovesOne ==
    authLast.op = "LogoutRequest" =>
        LET of_user == SessionsFound(authLast.before, authLast.arg)
            responses == {i \in 1..Len(authLast.signals) :
                              authLast.signals[i].signal = "LogoutResponse"}
        IN  /\ Cardinality(responses) = 1
            /\ IF of_user # {}
               THEN /\ \E k \in of_user :
                          DOMAIN active_sessions = DOMAIN authLast.before \ {k}
                    /\ \A k \in DOMAIN active_sessions :
                          active_sessions[k] = authLast.before[k]
                    /\ authLast.signals[Len(authLast.signals)] = LogoutResponse(TRUE)
               ELSE /\ active_sessions = authLast.before
                    /\ authLast.signals = <<LogoutResponse(FALSE)>>

\* A LogoutRequest for a user with three sessions left two of them.
C34_Witness ==
    /\ authLast.op = "LogoutRequest"
    /\ Cardinality(SessionsFound(authLast.before, authLast.arg)) = 3
    /\ Cardinality(DOMAIN active_sessions) = 2
    /\ LogoutResponse(TRUE) \in {authLast.signals[i] : i \in 1..Len(authLast.signals)}

----------------------------------------------------------------------------
(* Claims about the Cache's cleanup task, checked under SpecCleanup.        *)

\* The keys whose entry a step takes out of the cache or replaces.
EntriesLeaving == {k \in DOMAIN cache : k \notin DOMAIN cache' \/ cache'[k] # cache[k]}

\* C35: a round of the Cache's cleanup task leaves the cache as it was; an
\* entry leaves the cache only when a FetchData for its key reads it after its
\* expiry or a StoreData for its key has the Cache overwrite it, so an expired
\* entry nobody reads stays in the cache.
C35_CleanupKeepsCache ==
    /\ [][dataLast'.op = "cleanup_cache" => cache' = cache]_vars
    /\ [][\A k \in EntriesLeaving :
              \/ /\ dataLast'.op = "FetchData"
                 /\ dataLast'.key = k
                 /\ Expired(cache, k, now)
              \/ /\ dataLast'.op = "StoreData"
                 /\ dataLast'.key = k
                 /\ k \in DOMAIN cache']_vars

\* The cleanup task went round while the cache held an entry whose expiry had
\* passed, and the entry is still there.
C35_Witness ==
    /\ dataLast.op = "cleanup_cache"
    /\ \E k \in DOMAIN cache : Expired(cache, k, now)

----------------------------------------------------------------------------
(* More claims about the recovery, checked under SpecSup.                   *)

\* C37: whenever the live Data Manager has processed every dependency update
\* sent to it, the Network address it holds is the supervisor's
\* network_manager, the one spawned last; a Data Manager the recovery spawns
\* holds that address from the start, whatever updates the one it replaces
\* has not yet processed.
C37_DataHoldsLiveNetwork ==
    /\ [](mailboxes[supervisor.data_manager] = <<>> =>
            /\ fields[supervisor.data_manager].network_manager = supervisor.network_manager
            /\ spawned[supervisor.network_manager] = "Network"
            /\ supervisor.network_manager = Latest("Network"))
    /\ [][supervisor'.data_manager # supervisor.data_manager =>
              /\ mailboxes'[supervisor'.data_manager] = <<>>
              /\ fields'[supervisor'.data_manager].network_manager
                     = supervisor.network_manager]_vars

\* The Data Manager was replaced while the one before it had not processed the
\* update of a Network recovery: the new one holds the new Network's address.
C37_Witness ==
    /\ recovered = <<"Network", "Data">>
    /\ \E dm \in DOMAIN mailboxes : dm # supervisor.data_manager /\ mailboxes[dm] # <<>>
    /\ fields[supervisor.data_manager].network_manager = Latest("Network")
    /\ supervisor.data_manager = Latest("Data")

----------------------------------------------------------------------------
(* Claims about the supervisor's fields, checked under SpecSupervisor.      *)

\* The kinds of actor the recovery spawns.
ReplacementKinds == ActorTypes \cup {"Cache", "Storage"}

\* C36: no message the supervisor handles (ProcessLogin, InitializeAppRequest)
\* changes its user_manager, data_manager or network_manager or spawns a
\* replacement: the three fields change, and an actor of a recoverable kind is
\* spawned, only in a step of the recovery operation.
C36_OnlyRecoveryReplaces ==
    /\ [][supervisor' # supervisor => recovered' # recovered]_vars
    /\ [][(\E a \in DOMAIN spawned' \ DOMAIN spawned : spawned'[a] \in ReplacementKinds)
              => recovered' # recovered]_vars
    /\ [](askLast.kind \in {"ProcessLogin", "InitializeAppRequest"} /\ recovered = <<>>
              => supervisor = AppSupervisorNew.supervisor)

\* After the User Manager was replaced the supervisor handled an
\* InitializeAppRequest asking for a reset and still holds the replacement.
C36_Witness ==
    /\ askLast.kind = "InitializeAppRequest"
    /\ askLast.args[1]
    /\ recovered = <<"User">>
    /\ supervisor.user_manager # AppSupervisorNew.supervisor.user_manager

----------------------------------------------------------------------------
(* Claims about the replaced actors, checked under SpecOrphan. *)

\* The actors the supervisor reaches now: its three managers, the Cache and
\* the Storage of its Data Manager, and the Auth actor it never replaces.
CurrentActors ==
    {supervisor.user_manager, supervisor.data_manager, supervisor.network_manager,
     fields[supervisor.data_manager].cache_actor,
     fields[supervisor.data_manager].storage_actor}
    \cup {b \in 1..Len(spawned) : spawned[b] = "Auth"}

\* An actor a recovery has replaced, alone or as the child of a replaced
\* Data Manager.
Replaced(a) == a \in 1..Len(spawned) /\ a \notin CurrentActors

\* C38: once the Data Manager the supervisor holds has taken every
\* UpdateNetworkDependency, a replaced actor is referenced neither by the
\* supervisor nor by any actor that is not itself replaced; and every
\* replaced actor's loop ends, after which no running actor references it.
C38_ReplacedTerminate ==
    /\ [](\A a \in TreeAddresses :
            Replaced(a) /\ mailboxes[supervisor.data_manager] = <<>>
            => /\ ~SupervisorHolds(a)
               /\ \A b \in LiveHolders(a) : Replaced(b))
    /\ \A a \in TreeAddresses :
            Replaced(a) ~> (a \in gone /\ LiveHolders(a) = {} /\ ~SupervisorHolds(a))

\* A replaced Network Manager, a replaced User Manager and a replaced Data
\* Manager with its Cache and its Storage have all ended.
C38_Witness ==
    /\ \A kind \in {"Network", "User", "Data", "Cache", "Storage"} :
            \E a \in gone : spawned[a] = kind /\ Replaced(a)
    /\ \A a \in gone : Replaced(a)

----------------------------------------------------------------------------
(* Claims about the profiles the User Manager reads and writes, checked     *)
(* under SpecUser.                                                          *)

IsProfileUpdatedSignal(entry) == entry.to = "ProfileUpdatedSignal"

\* The profile actors that hold a profile.
ProfilesHeld ==
    {a \in 1..Len(spawned) : spawned[a] = "Profile" /\ fields[a].profile # None}

\* The request the User Manager is serving is of this kind.
Serving(kind) == asks # <<>> /\ asks[1].kind = kind

\* C39: an UpdateProfile the User Manager has handled leaves the profile
\* actor of its user id holding exactly the profile it carried and has sent
\* exactly one ProfileUpdatedSignal with that user id and profile (none when
\* it failed); no step of it touches the profile actor of another user id;
\* nothing changes a profile between two requests; no step of a GetProfile
\* changes a profile that is held; and a GetProfile returns the profile its
\* user's profile actor holds. So a GetProfile that follows an UpdateProfile
\* for the same user id returns the updated profile.
C39_UpdateThenGet ==
    /\ [](asks = <<>> /\ askLast.kind = "UserUpdateProfile" =>
            LET user_id == askLast.args[1]
                profile == askLast.args[2]
                stored == fields[supervisor.user_manager].profile_actors
                sent == SelectSeq(askLast.trace, IsProfileUpdatedSignal)
            IN  IF Failed(askLast.result) THEN sent = <<>>
                ELSE /\ user_id \in DOMAIN stored
                     /\ fields[stored[user_id]].profile = Some(profile)
                     /\ Len(sent) = 1
                     /\ sent[1].user_id = user_id
                     /\ sent[1].profile = profile)
    /\ [][Serving("UserUpdateProfile") =>
            \A a \in ProfilesHeld :
                fields[a].user_id # asks[1].args[1] => fields'[a] = fields[a]]_vars
    /\ [][asks = <<>> => fields' = fields]_vars
    /\ [][Serving("UserGetProfile") =>
            \A a \in ProfilesHeld : fields'[a] = fields[a]]_vars
    /\ [](asks = <<>> /\ askLast.kind = "UserGetProfile" /\ ~Failed(askLast.result) =>
            LET user_id == askLast.args[1]
                stored == fields[supervisor.user_manager].profile_actors
            IN  /\ user_id \in DOMAIN stored
                /\ fields[stored[user_id]].profile = Some(askLast.result.val.val))

\* A GetProfile for user_1 returned the profile an UpdateProfile wrote, while
\* user_2's profile actor holds the other profile, written for user_2.
C39_Witness ==
    /\ asks = <<>>
    /\ askLast.kind = "UserGetProfile"
    /\ askLast.args = <<"user_1">>
    /\ askLast.result = Ok(Ok(WrittenProfile("user_1")))
    /\ LET stored == fields[supervisor.user_manager].profile_actors
       IN  /\ DOMAIN stored = {"user_1", "user_2"}
           /\ fields[stored["user_2"]].profile = Some(RenamedProfile("user_2"))

\* The handler of an UpdatePreferencesRequest whose GetProfile (at = 1) or
\* UpdateProfile (at = 2) has just answered.
PreferencesAnswered(at) ==
    /\ Len(asks) = 1
    /\ asks[1].kind = "UpdatePreferencesRequest"
    /\ asks[1].pc = at
    /\ asks[1].answer # None

\* C40: when the handler of an UpdatePreferencesRequest has made its update,
\* the profile held for the user has each of theme, notifications_enabled and
\* language at the request's value if the request carries one and at its
\* previous value otherwise, and user_id, name, email and avatar_url at their
\* previous values; the previous values are those of the profile that was
\* held when the request arrived (the default profile if none was).
C40_OnlyPresentPreferences ==
    /\ [](PreferencesAnswered(1) /\ ~Failed(asks[1].answer[1]) =>
            LET stored == fields[supervisor.user_manager].profile_actors
            IN  fields[stored[asks[1].args[1]]].profile = Some(asks[1].answer[1].val.val))
    /\ [][Serving("UpdatePreferencesRequest") /\ asks[1].pc = 1 =>
            \A a \in ProfilesHeld : fields'[a] = fields[a]]_vars
    /\ [](PreferencesAnswered(2) =>
            LET msg == asks[1].args
                stored == fields[supervisor.user_manager].profile_actors
                old == asks[1].acc["UserGetProfile"]
                new == fields[stored[msg[1]]].profile[1]
            IN  /\ new.preferences.theme =
                       IF msg[2] # None THEN msg[2][1] ELSE old.preferences.theme
                /\ new.preferences.notifications_enabled =
                       IF msg[3] # None THEN msg[3][1]
                       ELSE old.preferences.notifications_enabled
                /\ new.preferences.language =
                       IF msg[4] # None THEN msg[4][1] ELSE old.preferences.language
                /\ new.user_id = old.user_id
                /\ new.name = old.name
                /\ new.email = old.email
                /\ new.avatar_url = old.avatar_url)

\* A request that carries a theme only was applied to a renamed profile whose
\* language an earlier request had changed: the theme is the request's, the
\* language and the name are the earlier ones.
C40_Witness ==
    /\ PreferencesAnswered(2)
    /\ asks[1].args = <<"user_1", Some("dark"), None, None>>
    /\ LET old == asks[1].acc["UserGetProfile"]
           stored == fields[supervisor.user_manager].profile_actors
           new == fields[stored["user_1"]].profile[1]
       IN  /\ old.name = <<"Second">>
           /\ old.preferences =
                  [theme |-> "light", notifications_enabled |-> TRUE, language |-> "ko"]
           /\ new = [old EXCEPT !.preferences.theme = "dark"]

====
